---- MODULE Spec2Model ----
(***************************************************************************)
(* timesink: the billing-integrity core (timer state machine, time-entry   *)
(* audit/locking, invoice lifecycle) as a state machine over the SQLite    *)
(* tables the repositories read and write.                                 *)
(*                                                                         *)
(* Representation.                                                         *)
(*  - The clock `now` counts ticks; TicksPerSecond ticks make one second.  *)
(*    Values held in memory by the Go code (time.Time, time.Duration) are  *)
(*    ticks; values stored in a TEXT column are whole seconds, because     *)
(*    time.RFC3339 has no fractional part (FormatTime / ParseTime).        *)
(*  - A nullable column or pointer is <<>> (NULL / nil) or <<v>>.          *)
(*  - float64 money is exact fixed point: hours are kept as seconds        *)
(*    (hours * 3600), hourly rates are whole currency units, an amount is  *)
(*    seconds * rate * 100 (1/360000 of a currency unit) and a tax rate is *)
(*    a percentage, so that subtotal * rate is exact.  Rounding of binary  *)
(*    floating point is not modelled.                                      *)
(*  - Every write statement (ExecContext / Commit) may fail: the `fault`   *)
(*    argument of an action names the write that returns an error, and the *)
(*    action then follows the code's error path.                           *)
(*  - `last` records the call just made (operation, arguments, error);     *)
(*    `obs` and `timer_runs` observe the real timing of the current timer  *)
(*    run and of the entries made by Stop.  They are read by no action.    *)
(***************************************************************************)
EXTENDS Integers, Sequences, FiniteSets, TLC

\* ------------------------------------------------------------------ bounds
MaxTime == 4
MaxEntries == 1
MaxHistory == 1
MaxInvoices == 1
MaxLineItems == 2
MaxIssued == 2

VARIABLES now, clients, active_timer, time_entries, entry_history,
          invoices, invoice_line_items, line_item_seq, last, obs, timer_runs

vars == <<now, clients, active_timer, time_entries, entry_history,
          invoices, invoice_line_items, line_item_seq, last, obs, timer_runs>>

\* the clock's resolution: the positions of a tick within its second
SubSecond == {"whole", "half"}

TicksPerSecond == Cardinality(SubSecond)

\* ------------------------------------------------------------ input domains
ClientIDs == {1, 2, 3}
Descriptions == {"a", "b"}
Reasons == {"fix", "typo"}

\* ------------------------------------------------------------------ helpers
NULL == <<>>

Some(v) == <<v>>

Val(n) == n[1]

SeqToSet(s) == {s[i] : i \in DOMAIN s}

RECURSIVE SumSeq(_)
SumSeq(s) == IF s = <<>> THEN 0 ELSE Head(s) + SumSeq(Tail(s))

\* time.Time.Format(time.RFC3339): the stored text has whole seconds only
FormatTime(t) == t \div TicksPerSecond

\* time.Parse(time.RFC3339, s)
parseTime(s) == s * TicksPerSecond

\* int64(d.Seconds()): a duration in ticks cut toward zero to whole seconds
Int64Seconds(d) == IF d >= 0 THEN d \div TicksPerSecond ELSE 0 - ((0 - d) \div TicksPerSecond)

\* time.Time{}: the zero time, before every instant of the clock
ZeroTime == 0 - 1

\* time.Duration.Hours() is kept as whole seconds
SecondsPerHour == 60 * 60

\* the call record: the operation, the id and argument it was given, what it
\* returned (the id it created; for CalculateTotals 1 when it repeats the
\* call before it) and its error, "" for nil.  Update's argument is
\* <<reason, whether the entry it was given passes Validate>>.
Call(op, id, req, ret, err) == [op |-> op, id |-> id, req |-> req, ret |-> ret, err |-> err]

\* the call being made is the successful call just made, made again
Repeats(op, id, req) == last.op = op /\ last.err = "" /\ last.id = id /\ last.req = req

\* defer tx.Rollback(): what a transaction leaves in the store
TxOutcome(committed, before, after) == IF committed THEN after ELSE before

\* --------------------------------------------------------------- clients
\* ClientRepo.GetByID: sql.ErrNoRows is returned as an error
ClientExists(id) == id \in DOMAIN clients

\* clients edit --rate: GetByID, set HourlyRate, Validate, ClientRepo.Update
\* an edit of the rate that also re-prices the client's entries
ClientUpdateRepricing(id, rate, fault) ==
    LET err == IF ~ClientExists(id) THEN "client not found"
               ELSE IF rate < 0 THEN "invalid client"
               ELSE IF fault THEN "storage" ELSE ""
    IN  /\ clients' = IF err = "" THEN [clients EXCEPT ![id].hourly_rate = rate] ELSE clients
        /\ time_entries' = IF err = ""
                           THEN [k \in DOMAIN time_entries |->
                                   IF time_entries[k].client_id = id
                                   THEN [time_entries[k] EXCEPT !.hourly_rate = rate]
                                   ELSE time_entries[k]]
                           ELSE time_entries
        /\ last' = Call("ClientUpdate", id, Some(rate), 0, err)
        /\ UNCHANGED <<now, active_timer, entry_history, invoices,
                       invoice_line_items, line_item_seq, obs, timer_runs>>

ClientUpdate(id, rate, fault) ==
    LET err == IF ~ClientExists(id) THEN "client not found"
               ELSE IF rate < 0 THEN "invalid client"
               ELSE IF fault THEN "storage" ELSE ""
    IN  /\ clients' = IF err = "" THEN [clients EXCEPT ![id].hourly_rate = rate] ELSE clients
        /\ last' = Call("ClientUpdate", id, Some(rate), 0, err)
        /\ UNCHANGED <<now, active_timer, time_entries, entry_history, invoices,
                       invoice_line_items, line_item_seq, obs, timer_runs>>

\* ClientRepo.Archive (archived = TRUE) and ClientRepo.Unarchive (FALSE):
\* UPDATE clients SET is_archived = ? WHERE id = ?
SetArchived(id, archived, fault) ==
    LET err == IF fault THEN "storage"
               ELSE IF ~ClientExists(id) THEN "client not found" ELSE ""
    IN  /\ clients' = IF err = "" THEN [clients EXCEPT ![id].is_archived = archived] ELSE clients
        /\ last' = Call("SetArchived", id, Some(archived), 0, err)
        /\ UNCHANGED <<now, active_timer, time_entries, entry_history, invoices,
                       invoice_line_items, line_item_seq, obs, timer_runs>>

\* ------------------------------------------------------ domain.ActiveTimer
NewActiveTimer(clientID, description, at) ==
    [ClientID |-> clientID, Description |-> description, StartTime |-> at,
     PausedAt |-> NULL, TotalPausedSeconds |-> 0]

State(t) == IF t.PausedAt # NULL THEN "paused" ELSE "running"

\* Elapsed without the paused time taken off
ElapsedWallClock(t, at) == at - t.StartTime

\* Elapsed that does not take the pause in progress off
ElapsedOpenPauseCounted(t, at) ==
    LET totalElapsed == at - t.StartTime
        pausedDuration == t.TotalPausedSeconds * TicksPerSecond
    IN  totalElapsed - pausedDuration

Elapsed(t, at) ==
    LET totalElapsed == at - t.StartTime
        pausedDuration == t.TotalPausedSeconds * TicksPerSecond
                          + (IF t.PausedAt # NULL THEN at - Val(t.PausedAt) ELSE 0)
    IN  totalElapsed - pausedDuration

ActiveTimerPause(t, at) ==
    IF t.PausedAt = NULL THEN [t EXCEPT !.PausedAt = Some(at)] ELSE t

ActiveTimerResume(t, at) ==
    IF t.PausedAt # NULL
    THEN [t EXCEPT !.TotalPausedSeconds = @ + Int64Seconds(at - Val(t.PausedAt)),
                   !.PausedAt = NULL]
    ELSE t

\* ToTimeEntry that ignores the rate it is given
ToTimeEntryListRate(t, hourlyRate, at) ==
    LET r == IF t.PausedAt # NULL THEN ActiveTimerResume(t, at) ELSE t
    IN  [ClientID |-> r.ClientID, Description |-> r.Description,
         StartTime |-> r.StartTime, EndTime |-> Some(at),
         DurationSeconds |-> Some(Int64Seconds(Elapsed(r, at))),
         HourlyRate |-> 100, IsBillable |-> TRUE, IsDeleted |-> FALSE,
         InvoiceID |-> NULL, CreatedAt |-> r.StartTime, UpdatedAt |-> at]

ToTimeEntry(t, hourlyRate, at) ==
    LET r == IF t.PausedAt # NULL THEN ActiveTimerResume(t, at) ELSE t
    IN  [ClientID |-> r.ClientID, Description |-> r.Description,
         StartTime |-> r.StartTime, EndTime |-> Some(at),
         DurationSeconds |-> Some(Int64Seconds(Elapsed(r, at))),
         HourlyRate |-> hourlyRate, IsBillable |-> TRUE, IsDeleted |-> FALSE,
         InvoiceID |-> NULL, CreatedAt |-> r.StartTime, UpdatedAt |-> at]

\* ---------------------------------------------------- repository.TimerRepo
TimerRow(t) ==
    [id |-> 1, client_id |-> t.ClientID, description |-> t.Description,
     start_time |-> FormatTime(t.StartTime),
     paused_at |-> IF t.PausedAt = NULL THEN NULL ELSE Some(FormatTime(Val(t.PausedAt))),
     total_paused_seconds |-> t.TotalPausedSeconds]

\* TimerRepo.Get: nil when the row is absent
TimerGet ==
    IF \E r \in active_timer : r.id = 1
    THEN LET r == CHOOSE x \in active_timer : x.id = 1
         IN  Some([ClientID |-> r.client_id, Description |-> r.description,
                   StartTime |-> parseTime(r.start_time),
                   PausedAt |-> IF r.paused_at = NULL THEN NULL
                                ELSE Some(parseTime(Val(r.paused_at))),
                   TotalPausedSeconds |-> r.total_paused_seconds])
    ELSE NULL

\* TimerRepo.Save: INSERT OR REPLACE ... VALUES (1, ...)
TimerSave(table, t) == {r \in table : r.id # 1} \cup {TimerRow(t)}

\* TimerRepo.Delete: DELETE FROM active_timer WHERE id = 1
TimerDelete(table) == {r \in table : r.id # 1}

\* timerService.GetState
GetState == IF TimerGet = NULL THEN "idle" ELSE State(Val(TimerGet))

\* ------------------------------------------------------- domain.TimeEntry
\* TimeEntry.Duration of a closed or open entry, in ticks
Duration(e, at) ==
    IF e.EndTime = NULL THEN at - e.StartTime ELSE Val(e.EndTime) - e.StartTime

\* TimeEntry.Amount: hours * rate
Amount(e, at) ==
    IF ~e.IsBillable THEN 0
    ELSE (Duration(e, at) \div TicksPerSecond) * e.HourlyRate * 100

Validate(e) ==
    IF e.ClientID <= 0 THEN "client ID is required"
    ELSE IF e.HourlyRate < 0 THEN "hourly rate cannot be negative"
    ELSE IF e.StartTime = ZeroTime THEN "start time is required"
    ELSE IF e.EndTime # NULL /\ Val(e.EndTime) < e.StartTime
         THEN "end time must be after start time"
    ELSE ""

\* ---------------------------------------------------- repository.EntryRepo
EntryRow(e) ==
    [client_id |-> e.ClientID, description |-> e.Description,
     start_time |-> FormatTime(e.StartTime),
     end_time |-> IF e.EndTime = NULL THEN NULL ELSE Some(FormatTime(Val(e.EndTime))),
     duration_seconds |-> e.DurationSeconds,
     hourly_rate |-> e.HourlyRate, is_billable |-> e.IsBillable,
     is_deleted |-> e.IsDeleted, invoice_id |-> e.InvoiceID,
     created_at |-> FormatTime(e.CreatedAt), updated_at |-> FormatTime(e.UpdatedAt)]

\* EntryRepo.Create: the error, "" when the row can be inserted
\* (client_id REFERENCES clients(id), foreign keys are on)
CreateError(e) ==
    IF Validate(e) # "" THEN "invalid"
    ELSE IF ~ClientExists(e.ClientID) THEN "storage"
    ELSE ""

\* EntryRepo.GetByID: the row as a domain.TimeEntry
EntryGetByID(id) ==
    LET r == time_entries[id]
    IN  [ID |-> id, ClientID |-> r.client_id, Description |-> r.description,
         StartTime |-> parseTime(r.start_time),
         EndTime |-> IF r.end_time = NULL THEN NULL ELSE Some(parseTime(Val(r.end_time))),
         DurationSeconds |-> r.duration_seconds,
         HourlyRate |-> r.hourly_rate, IsBillable |-> r.is_billable,
         IsDeleted |-> r.is_deleted, InvoiceID |-> r.invoice_id,
         CreatedAt |-> parseTime(r.created_at), UpdatedAt |-> parseTime(r.updated_at)]

EntryExists(id) == id \in DOMAIN time_entries

\* EntryRepo.IsLocked on an existing row
IsLocked(id) == time_entries[id].invoice_id # NULL

\* strconv.FormatInt / FormatBool and fmt.Sprintf("%.2f") as the audit writes them
FormatBool(b) == IF b THEN "true" ELSE "false"

FormatRate(r) == ToString(r) \o ".00"

FormatNullableTime(t) == IF t = NULL THEN "" ELSE ToString(FormatTime(Val(t)))

HistoryRow(entryID, fieldName, oldVal, newVal, reason, at) ==
    [entry_id |-> entryID, field_name |-> fieldName, old_value |-> oldVal,
     new_value |-> newVal, change_reason |-> reason, changed_at |-> FormatTime(at)]

\* insertHistory: nothing is written when the two texts are equal
insertHistory(differ, entryID, fieldName, oldVal, newVal, reason, at) ==
    IF differ /\ oldVal # newVal
    THEN <<HistoryRow(entryID, fieldName, oldVal, newVal, reason, at)>>
    ELSE <<>>

\* EntryRepo.createAuditRecords: the rows it inserts, in order
createAuditRecords(old, new, reason, at) ==
    insertHistory(old.ClientID # new.ClientID, new.ID, "client_id",
                  ToString(old.ClientID), ToString(new.ClientID), reason, at)
    \o insertHistory(old.Description # new.Description, new.ID, "description",
                     old.Description, new.Description, reason, at)
    \o insertHistory(old.StartTime # new.StartTime, new.ID, "start_time",
                     ToString(FormatTime(old.StartTime)), ToString(FormatTime(new.StartTime)),
                     reason, at)
    \o insertHistory(TRUE, new.ID, "end_time",
                     FormatNullableTime(old.EndTime), FormatNullableTime(new.EndTime), reason, at)
    \o insertHistory(old.HourlyRate # new.HourlyRate, new.ID, "hourly_rate",
                     FormatRate(old.HourlyRate), FormatRate(new.HourlyRate), reason, at)
    \o insertHistory(old.IsBillable # new.IsBillable, new.ID, "is_billable",
                     FormatBool(old.IsBillable), FormatBool(new.IsBillable), reason, at)

\* UPDATE time_entries SET client_id, description, start_time, end_time,
\* duration_seconds, hourly_rate, is_billable, updated_at WHERE id = ?
UpdatedRow(row, e, at) ==
    [row EXCEPT !.client_id = e.ClientID, !.description = e.Description,
                !.start_time = FormatTime(e.StartTime),
                !.end_time = IF e.EndTime = NULL THEN NULL ELSE Some(FormatTime(Val(e.EndTime))),
                !.duration_seconds = e.DurationSeconds,
                !.hourly_rate = e.HourlyRate, !.is_billable = e.IsBillable,
                !.updated_at = FormatTime(at)]

\* the guard of Update without the IsLocked check
UpdateGuardErrorNoLock(e) ==
    IF Validate(e) # "" THEN "invalid"
    ELSE IF ~EntryExists(e.ID) THEN "time entry not found"
    ELSE ""

\* EntryRepo.Update up to the transaction: the guard that refuses the call
UpdateGuardError(e) ==
    IF Validate(e) # "" THEN "invalid"
    ELSE IF ~EntryExists(e.ID) THEN "time entry not found"
    ELSE IF IsLocked(e.ID) THEN "locked"
    ELSE ""

UpdateFaults == {"none", "update", "history", "commit"}

\* an Update whose rows replace the history instead of following it
UpdateTxRewriting(e, reason, fault) ==
    LET old == EntryGetByID(e.ID)
        audit == createAuditRecords(old, e, reason, now)
        execErr == IF fault = "update" THEN "storage"
                   ELSE IF time_entries[e.ID].is_deleted THEN "time entry not found or already deleted"
                   ELSE IF ~ClientExists(e.ClientID) THEN "storage"
                   ELSE ""
        \* the last INSERT INTO entry_history fails, the ones before it are written
        auditErr == IF fault = "history" /\ audit # <<>> THEN "storage" ELSE ""
        err == IF execErr # "" THEN execErr
               ELSE IF auditErr # "" THEN auditErr
               ELSE IF fault = "commit" THEN "storage" ELSE ""
    IN  [err |-> err,
         entries |-> IF execErr = ""
                     THEN [time_entries EXCEPT ![e.ID] = UpdatedRow(@, e, now)]
                     ELSE time_entries,
         history |-> IF execErr # "" THEN entry_history
                     ELSE IF auditErr # "" THEN SubSeq(audit, 1, Len(audit) - 1)
                     ELSE audit]

\* an Update whose UPDATE statement has no is_deleted = 0 condition
UpdateTxOfDeleted(e, reason, fault) ==
    LET old == EntryGetByID(e.ID)
        audit == createAuditRecords(old, e, reason, now)
        execErr == IF fault = "update" THEN "storage"
                   ELSE IF ~ClientExists(e.ClientID) THEN "storage"
                   ELSE ""
        auditErr == IF fault = "history" /\ audit # <<>> THEN "storage" ELSE ""
        err == IF execErr # "" THEN execErr
               ELSE IF auditErr # "" THEN auditErr
               ELSE IF fault = "commit" THEN "storage" ELSE ""
    IN  [err |-> err,
         entries |-> IF execErr = ""
                     THEN [time_entries EXCEPT ![e.ID] = UpdatedRow(@, e, now)]
                     ELSE time_entries,
         history |-> IF execErr # "" THEN entry_history
                     ELSE IF auditErr # "" THEN entry_history \o SubSeq(audit, 1, Len(audit) - 1)
                     ELSE entry_history \o audit]

\* EntryRepo.Update inside the transaction: the error, the rows written so far
UpdateTx(e, reason, fault) ==
    LET old == EntryGetByID(e.ID)
        audit == createAuditRecords(old, e, reason, now)
        execErr == IF fault = "update" THEN "storage"
                   ELSE IF time_entries[e.ID].is_deleted THEN "time entry not found or already deleted"
                   ELSE IF ~ClientExists(e.ClientID) THEN "storage"
                   ELSE ""
        \* the last INSERT INTO entry_history fails, the ones before it are written
        auditErr == IF fault = "history" /\ audit # <<>> THEN "storage" ELSE ""
        err == IF execErr # "" THEN execErr
               ELSE IF auditErr # "" THEN auditErr
               ELSE IF fault = "commit" THEN "storage" ELSE ""
    IN  [err |-> err,
         entries |-> IF execErr = ""
                     THEN [time_entries EXCEPT ![e.ID] = UpdatedRow(@, e, now)]
                     ELSE time_entries,
         history |-> IF execErr # "" THEN entry_history
                     ELSE IF auditErr # "" THEN entry_history \o SubSeq(audit, 1, Len(audit) - 1)
                     ELSE entry_history \o audit]

Update(e, reason, fault) ==
    LET guard == UpdateGuardError(e)
        tx == UpdateTx(e, reason, fault)
        err == IF guard # "" THEN guard ELSE tx.err
    IN  /\ time_entries' = IF guard # "" THEN time_entries
                           ELSE TxOutcome(tx.err = "", time_entries, tx.entries)
        /\ entry_history' = IF guard # "" THEN entry_history
                            ELSE TxOutcome(tx.err = "", entry_history, tx.history)
        /\ last' = Call("Update", e.ID, <<reason, Validate(e) = "">>, 0, err)
        /\ UNCHANGED <<now, clients, active_timer, invoices, invoice_line_items,
                       line_item_seq, obs, timer_runs>>

SoftDeleteGuardError(id) ==
    IF ~EntryExists(id) THEN "time entry not found"
    ELSE IF IsLocked(id) THEN "locked"
    ELSE ""

SoftDeleteFaults == {"none", "update", "history", "commit"}

\* a deletion that writes no history row
SoftDeleteUnaudited(id, reason, fault) ==
    LET guard == SoftDeleteGuardError(id)
        err == IF guard # "" THEN guard ELSE IF fault # "none" THEN "storage" ELSE ""
        flagged == [time_entries EXCEPT ![id].is_deleted = TRUE, ![id].updated_at = FormatTime(now)]
        audited == entry_history
    IN  /\ time_entries' = IF guard # "" THEN time_entries
                           ELSE TxOutcome(err = "", time_entries,
                                          IF fault = "update" THEN time_entries ELSE flagged)
        /\ entry_history' = IF guard # "" THEN entry_history
                            ELSE TxOutcome(err = "", entry_history,
                                           IF fault \in {"update", "history"} THEN entry_history
                                           ELSE audited)
        /\ last' = Call("SoftDelete", id, Some(reason), 0, err)
        /\ UNCHANGED <<now, clients, active_timer, invoices, invoice_line_items,
                       line_item_seq, obs, timer_runs>>

SoftDelete(id, reason, fault) ==
    LET guard == SoftDeleteGuardError(id)
        err == IF guard # "" THEN guard ELSE IF fault # "none" THEN "storage" ELSE ""
        flagged == [time_entries EXCEPT ![id].is_deleted = TRUE, ![id].updated_at = FormatTime(now)]
        audited == Append(entry_history, HistoryRow(id, "is_deleted", "0", "1", reason, now))
    IN  /\ time_entries' = IF guard # "" THEN time_entries
                           ELSE TxOutcome(err = "", time_entries,
                                          IF fault = "update" THEN time_entries ELSE flagged)
        /\ entry_history' = IF guard # "" THEN entry_history
                            ELSE TxOutcome(err = "", entry_history,
                                           IF fault \in {"update", "history"} THEN entry_history
                                           ELSE audited)
        /\ last' = Call("SoftDelete", id, Some(reason), 0, err)
        /\ UNCHANGED <<now, clients, active_timer, invoices, invoice_line_items,
                       line_item_seq, obs, timer_runs>>

\* entries add (cli) / the entry form (tui): NewTimeEntry, Stop(endTime), Create
ManualEntry(clientID, description, startTime, endTime, rate, at) ==
    [ClientID |-> clientID, Description |-> description, StartTime |-> startTime,
     EndTime |-> Some(endTime),
     DurationSeconds |-> Some(Int64Seconds(endTime - startTime)),
     HourlyRate |-> rate, IsBillable |-> TRUE, IsDeleted |-> FALSE,
     InvoiceID |-> NULL, CreatedAt |-> at, UpdatedAt |-> at]

CreateEntry(clientID, description, startTime, endTime, fault) ==
    LET entry == ManualEntry(clientID, description, startTime, endTime,
                             clients[clientID].hourly_rate, now)
        err == IF CreateError(entry) # "" THEN CreateError(entry)
               ELSE IF fault THEN "storage" ELSE ""
    IN  /\ ClientExists(clientID)
        /\ Len(time_entries) < MaxEntries
        /\ time_entries' = IF err = "" THEN Append(time_entries, EntryRow(entry)) ELSE time_entries
        /\ last' = Call("CreateEntry", clientID, NULL, IF err = "" THEN Len(time_entries) + 1 ELSE 0, err)
        /\ UNCHANGED <<now, clients, active_timer, entry_history, invoices,
                       invoice_line_items, line_item_seq, obs, timer_runs>>

\* EntryRepo.LockForInvoice inside its transaction: one UPDATE per id,
\* WHERE id = ? AND invoice_id IS NULL AND is_deleted = 0
RECURSIVE LockEach(_, _, _)
LockEach(entryIDs, invoiceID, table) ==
    IF entryIDs = <<>> THEN [err |-> "", entries |-> table]
    ELSE LET id == Head(entryIDs)
         IN  IF id \in DOMAIN table /\ table[id].invoice_id = NULL /\ ~table[id].is_deleted
             THEN LockEach(Tail(entryIDs), invoiceID,
                           [table EXCEPT ![id].invoice_id = Some(invoiceID),
                                         ![id].updated_at = FormatTime(now)])
             ELSE [err |-> "not found, already locked, or deleted", entries |-> table]

\* LockForInvoice that reports success and locks nothing
LockForInvoiceNothing(entryIDs, invoiceID, fault) == [err |-> "", entries |-> time_entries]

LockForInvoice(entryIDs, invoiceID, fault) ==
    LET tx == LockEach(entryIDs, invoiceID, time_entries)
        err == IF entryIDs = <<>> THEN ""
               ELSE IF fault = "lock" THEN "storage"
               ELSE IF tx.err # "" THEN tx.err
               ELSE IF fault = "commit" THEN "storage" ELSE ""
    IN  [err |-> err,
         entries |-> IF entryIDs = <<>> THEN time_entries
                     ELSE TxOutcome(err = "", time_entries, tx.entries)]

\* --------------------------------------------------------- domain.Invoice
NewInvoice(invoiceNumber, clientID, periodStart, periodEnd, at) ==
    [InvoiceNumber |-> invoiceNumber, ClientID |-> clientID,
     PeriodStart |-> periodStart, PeriodEnd |-> periodEnd,
     Subtotal |-> 0, TaxRate |-> 0, TaxAmount |-> 0, Total |-> 0,
     Status |-> "draft", DueDate |-> NULL, PaidDate |-> NULL,
     CreatedAt |-> at, UpdatedAt |-> at]

\* CanEdit that lets every status through
CanEditAnyStatus(i) == TRUE

CanEdit(i) == i.Status = "draft"

InvoiceFinalize(i, at) ==
    IF i.Status = "draft" THEN [i EXCEPT !.Status = "finalized", !.UpdatedAt = at] ELSE i

\* a tax rate is a percentage: subtotal * rate, exact because amounts are
\* multiples of 100
TaxOf(subtotal, taxRate) == (subtotal \div 100) * taxRate

\* Invoice.CalculateTotals without the reset of Subtotal
InvoiceCalculateTotalsAccumulating(i, lineItems, at) ==
    LET subtotal == i.Subtotal + SumSeq([k \in DOMAIN lineItems |-> lineItems[k].Amount])
    IN  [i EXCEPT !.Subtotal = subtotal, !.TaxAmount = TaxOf(subtotal, i.TaxRate),
                  !.Total = subtotal + TaxOf(subtotal, i.TaxRate), !.UpdatedAt = at]

\* Invoice.CalculateTotals with the tax left out of the total
InvoiceCalculateTotalsNoTax(i, lineItems, at) ==
    LET subtotal == SumSeq([k \in DOMAIN lineItems |-> lineItems[k].Amount])
    IN  [i EXCEPT !.Subtotal = subtotal, !.TaxAmount = TaxOf(subtotal, i.TaxRate),
                  !.Total = subtotal, !.UpdatedAt = at]

InvoiceCalculateTotals(i, lineItems, at) ==
    LET subtotal == SumSeq([k \in DOMAIN lineItems |-> lineItems[k].Amount])
    IN  [i EXCEPT !.Subtotal = subtotal, !.TaxAmount = TaxOf(subtotal, i.TaxRate),
                  !.Total = subtotal + TaxOf(subtotal, i.TaxRate), !.UpdatedAt = at]

InvoiceValidate(i) ==
    IF i.InvoiceNumber = <<>> THEN "invoice number is required"
    ELSE IF i.ClientID <= 0 THEN "client ID is required"
    ELSE IF i.PeriodStart = ZeroTime THEN "period start is required"
    ELSE IF i.PeriodEnd = ZeroTime THEN "period end is required"
    ELSE IF i.PeriodEnd < i.PeriodStart THEN "period end must be after period start"
    ELSE IF i.TaxRate < 0 \/ i.TaxRate > 100 THEN "tax rate must be between 0 and 1"
    ELSE ""

\* -------------------------------------------------- repository.InvoiceRepo
InvoiceRow(i) ==
    [invoice_number |-> i.InvoiceNumber, client_id |-> i.ClientID,
     period_start |-> FormatTime(i.PeriodStart), period_end |-> FormatTime(i.PeriodEnd),
     subtotal |-> i.Subtotal, tax_rate |-> i.TaxRate, tax_amount |-> i.TaxAmount,
     total |-> i.Total, status |-> i.Status,
     due_date |-> IF i.DueDate = NULL THEN NULL ELSE Some(FormatTime(Val(i.DueDate))),
     paid_date |-> IF i.PaidDate = NULL THEN NULL ELSE Some(FormatTime(Val(i.PaidDate))),
     created_at |-> FormatTime(i.CreatedAt), updated_at |-> FormatTime(i.UpdatedAt)]

InvoiceExists(id) == id \in DOMAIN invoices

InvoiceGetByID(id) ==
    LET r == invoices[id]
    IN  [ID |-> id, InvoiceNumber |-> r.invoice_number, ClientID |-> r.client_id,
         PeriodStart |-> parseTime(r.period_start), PeriodEnd |-> parseTime(r.period_end),
         Subtotal |-> r.subtotal, TaxRate |-> r.tax_rate, TaxAmount |-> r.tax_amount,
         Total |-> r.total, Status |-> r.status,
         DueDate |-> IF r.due_date = NULL THEN NULL ELSE Some(parseTime(Val(r.due_date))),
         PaidDate |-> IF r.paid_date = NULL THEN NULL ELSE Some(parseTime(Val(r.paid_date))),
         CreatedAt |-> parseTime(r.created_at), UpdatedAt |-> parseTime(r.updated_at)]

\* InvoiceRepo.Update: Validate, then UPDATE invoices ... WHERE id = ?
InvoiceUpdate(i, fault) ==
    LET err == IF InvoiceValidate(i) # "" THEN "invalid"
               ELSE IF fault THEN "storage"
               ELSE IF ~InvoiceExists(i.ID) THEN "invoice not found"
               ELSE ""
    IN  [err |-> err,
         invoices |-> IF err = ""
                      THEN [invoices EXCEPT ![i.ID] =
                              [InvoiceRow([i EXCEPT !.UpdatedAt = now])
                                 EXCEPT !.created_at = invoices[i.ID].created_at]]
                      ELSE invoices]

\* InvoiceRepo.GetLineItems: ... WHERE invoice_id = ? ORDER BY date
RECURSIVE SortByDate(_)
SortByDate(items) ==
    IF items = {} THEN <<>>
    ELSE LET first == CHOOSE x \in items :
                        \A y \in items : x.date < y.date \/ (x.date = y.date /\ x.id <= y.id)
         IN  <<first>> \o SortByDate(items \ {first})

GetLineItems(invoiceID) ==
    LET rows == SortByDate({r \in invoice_line_items : r.invoice_id = invoiceID})
    IN  [k \in DOMAIN rows |->
            [ID |-> rows[k].id, InvoiceID |-> rows[k].invoice_id, EntryID |-> rows[k].entry_id,
             Date |-> parseTime(rows[k].date), Description |-> rows[k].description,
             Hours |-> rows[k].hours, Rate |-> rows[k].rate, Amount |-> rows[k].amount]]

\* ---- text: a Go string is the sequence of its bytes (ASCII codes)
Hyphen == 45

IsDigit(c) == 48 <= c /\ c <= 57

\* fmt.Sprintf("%d", n) for n >= 0
RECURSIVE Itoa(_)
Itoa(n) == IF n < 10 THEN <<48 + n>> ELSE Itoa(n \div 10) \o <<48 + (n % 10)>>

\* fmt.Sprintf("%03d", n): zero-padded to at least three digits
Pad03(n) ==
    IF n < 10 THEN <<48, 48>> \o Itoa(n)
    ELSE IF n < 100 THEN <<48>> \o Itoa(n)
    ELSE Itoa(n)

\* fmt.Sprintf("%s-%d-", prefix, year)
NumberStem(prefix, year) == prefix \o <<Hyphen>> \o Itoa(year) \o <<Hyphen>>

\* fmt.Sprintf("%s-%d-%03d", prefix, year, seq)
FormatInvoiceNumber(prefix, year, seq) == NumberStem(prefix, year) \o Pad03(seq)

\* the digits a %d verb reads at the head of the input
RECURSIVE LeadingDigits(_)
LeadingDigits(s) ==
    IF s = <<>> \/ ~IsDigit(Head(s)) THEN <<>>
    ELSE <<Head(s)>> \o LeadingDigits(Tail(s))

RECURSIVE Atoi(_)
Atoi(d) == IF d = <<>> THEN 0 ELSE Atoi(SubSeq(d, 1, Len(d) - 1)) * 10 + (d[Len(d)] - 48)

\* fmt.Sscanf(text, prefix + "-%d-%d", &year, &lastSeq): NULL on an error,
\* else <<lastSeq>>.  The literal prefix must match byte for byte.
Sscanf(text, prefix) ==
    IF Len(text) <= Len(prefix) \/ SubSeq(text, 1, Len(prefix)) # prefix
       \/ text[Len(prefix) + 1] # Hyphen
    THEN NULL
    ELSE LET afterPrefix == SubSeq(text, Len(prefix) + 2, Len(text))
             yearDigits == LeadingDigits(afterPrefix)
             afterYear == SubSeq(afterPrefix, Len(yearDigits) + 1, Len(afterPrefix))
         IN  IF yearDigits = <<>> \/ afterYear = <<>> \/ Head(afterYear) # Hyphen
                \/ LeadingDigits(Tail(afterYear)) = <<>>
             THEN NULL
             ELSE Some(Atoi(LeadingDigits(Tail(afterYear))))

\* SQLite's LIKE compares ASCII letters without regard to case
ToUpper(c) == IF 97 <= c /\ c <= 122 THEN c - 32 ELSE c

\* text LIKE stem || '%' (the stems used hold no LIKE wildcard)
Like(text, stem) ==
    /\ Len(text) >= Len(stem)
    /\ \A k \in 1..Len(stem) : ToUpper(text[k]) = ToUpper(stem[k])

\* the BINARY collation of ORDER BY on a TEXT column: memcmp, then length
RECURSIVE TextLess(_, _)
TextLess(a, b) ==
    IF b = <<>> THEN FALSE
    ELSE IF a = <<>> THEN TRUE
    ELSE IF Head(a) # Head(b) THEN Head(a) < Head(b)
    ELSE TextLess(Tail(a), Tail(b))

\* the later of two optional texts in that order
LaterText(a, b) ==
    IF a = NULL THEN b ELSE IF b = NULL THEN a
    ELSE IF TextLess(Val(a), Val(b)) THEN b ELSE a

\* SELECT invoice_number FROM invoices WHERE invoice_number LIKE ?
\* ORDER BY invoice_number DESC LIMIT 1, over the rows lo..hi; NULL for no row
RECURSIVE LastNumberLike(_, _, _)
LastNumberLike(stem, lo, hi) ==
    IF lo > hi THEN NULL
    ELSE IF lo = hi
         THEN IF Like(invoices[lo].invoice_number, stem)
              THEN Some(invoices[lo].invoice_number) ELSE NULL
    ELSE LaterText(LastNumberLike(stem, lo, (lo + hi) \div 2),
                   LastNumberLike(stem, ((lo + hi) \div 2) + 1, hi))

\* InvoiceRepo.GetNextInvoiceNumber
GetNextInvoiceNumber(prefix, year) ==
    LET lastNumber == LastNumberLike(NumberStem(prefix, year), 1, Len(invoices))
    IN  IF lastNumber = NULL THEN FormatInvoiceNumber(prefix, year, 1)
        ELSE IF Sscanf(Val(lastNumber), prefix) = NULL
             THEN FormatInvoiceNumber(prefix, year, 1)
        ELSE FormatInvoiceNumber(prefix, year, Val(Sscanf(Val(lastNumber), prefix)) + 1)

\* invoice_number TEXT NOT NULL UNIQUE
NumberTaken(number) == \E k \in DOMAIN invoices : invoices[k].invoice_number = number

\* ------------------------------------------------- service.invoiceService
\* time.Time.Year(), the clock starting in 2026
Year(t) == 2026 + (t \div (TicksPerSecond * SecondsPerHour * 24 * 365))

\* "INV", the default prefix, and the prefixes "inv" and "ACME"
PrefixINV == <<73, 78, 86>>

PrefixInv == <<105, 110, 118>>

PrefixACME == <<65, 67, 77, 69>>

Prefixes == {PrefixINV}

\* the billing periods offered to CreateDraft: <<periodStart, periodEnd>>
Periods == {<<0, TicksPerSecond * SecondsPerHour>>}

TaxRates == {0, 10, 150}

\* the entry ids offered to the invoice operations; the last one never exists
EntryIDs == 1..(MaxEntries + 1)

EntryIDLists == {<<>>} \cup {<<a>> : a \in EntryIDs} \cup {<<a, b>> : a \in EntryIDs, b \in EntryIDs}

CreateDraftResult(clientID, periodStart, periodEnd, prefix, fault) ==
    LET invoice == NewInvoice(GetNextInvoiceNumber(prefix, Year(periodEnd)), clientID,
                              periodStart, periodEnd, now)
        err == IF ~ClientExists(clientID) THEN "client not found"
               ELSE IF InvoiceValidate(invoice) # "" THEN "invalid"
               ELSE IF fault THEN "storage"
               ELSE IF NumberTaken(invoice.InvoiceNumber) THEN "failed to create invoice"
               ELSE ""
    IN  [err |-> err,
         invoices |-> IF err = "" THEN Append(invoices, InvoiceRow(invoice)) ELSE invoices]

CreateDraft(clientID, periodStart, periodEnd, prefix, fault) ==
    LET res == CreateDraftResult(clientID, periodStart, periodEnd, prefix, fault)
    IN  /\ invoices' = res.invoices
        /\ last' = Call("CreateDraft", clientID, NULL,
                        IF res.err = "" THEN Len(invoices) + 1 ELSE 0, res.err)
        /\ UNCHANGED <<now, clients, active_timer, time_entries, entry_history,
                       invoice_line_items, line_item_seq, obs, timer_runs>>

\* the first loop without the comparison of the clients
RECURSIVE VerifyEntriesAnyClient(_, _)
VerifyEntriesAnyClient(entryIDs, invoice) ==
    IF entryIDs = <<>> THEN ""
    ELSE IF ~EntryExists(Head(entryIDs)) THEN "time entry not found"
    ELSE IF IsLocked(Head(entryIDs)) THEN "entry is already locked to an invoice"
    ELSE VerifyEntriesAnyClient(Tail(entryIDs), invoice)

\* AddEntriesToInvoice, first loop: the first entry that is refused
RECURSIVE VerifyEntries(_, _)
VerifyEntries(entryIDs, invoice) ==
    IF entryIDs = <<>> THEN ""
    ELSE IF ~EntryExists(Head(entryIDs)) THEN "time entry not found"
    ELSE IF IsLocked(Head(entryIDs)) THEN "entry is already locked to an invoice"
    ELSE IF EntryGetByID(Head(entryIDs)).ClientID # invoice.ClientID
         THEN "entry does not belong to invoice client"
    ELSE VerifyEntries(Tail(entryIDs), invoice)

\* AddEntriesToInvoice, second loop: the line item built for an entry
LineItemFor(invoiceID, entryID) ==
    LET entry == EntryGetByID(entryID)
    IN  [InvoiceID |-> invoiceID, EntryID |-> entryID, Date |-> entry.StartTime,
         Description |-> entry.Description,
         Hours |-> Duration(entry, now) \div TicksPerSecond,
         Rate |-> entry.HourlyRate, Amount |-> Amount(entry, now)]

\* InvoiceRepo.AddLineItem: INSERT INTO invoice_line_items, id from AUTOINCREMENT
LineItemRow(id, invoiceID, item) ==
    [id |-> id, invoice_id |-> invoiceID, entry_id |-> item.EntryID,
     date |-> FormatTime(item.Date), description |-> item.Description,
     hours |-> item.Hours, rate |-> item.Rate, amount |-> item.Amount]

AddEntriesError(invoiceID, entryIDs) ==
    IF ~InvoiceExists(invoiceID) THEN "invoice not found"
    ELSE IF ~CanEdit(InvoiceGetByID(invoiceID)) THEN "invoice is not editable"
    ELSE VerifyEntries(entryIDs, InvoiceGetByID(invoiceID))

\* failedAt: the position of the AddLineItem that fails, 0 when none does
AddEntriesToInvoice(invoiceID, entryIDs, failedAt) ==
    LET guard == AddEntriesError(invoiceID, entryIDs)
        written == IF guard # "" THEN 0
                   ELSE IF failedAt = 0 THEN Len(entryIDs) ELSE failedAt - 1
        err == IF guard # "" THEN guard ELSE IF failedAt # 0 THEN "storage" ELSE ""
    IN  /\ failedAt <= Len(entryIDs)
        /\ line_item_seq + Len(entryIDs) <= MaxLineItems
        /\ invoice_line_items' = invoice_line_items \cup
              {LineItemRow(line_item_seq + k, invoiceID, LineItemFor(invoiceID, entryIDs[k])) :
                 k \in 1..written}
        /\ line_item_seq' = line_item_seq + written
        /\ last' = Call("AddEntriesToInvoice", invoiceID, entryIDs, 0, err)
        /\ UNCHANGED <<now, clients, active_timer, time_entries, entry_history,
                       invoices, obs, timer_runs>>

\* CalculateTotals reading the line items as they were before the call
CalculateTotalsStale(invoiceID, taxRate, lineItemRows, fault) ==
    IF ~InvoiceExists(invoiceID) THEN [err |-> "invoice not found", invoices |-> invoices]
    ELSE LET rows == SortByDate(LET all == invoice_line_items
                                IN  {r \in all : r.invoice_id = invoiceID})
             items == [k \in DOMAIN rows |-> [Amount |-> rows[k].amount]]
             invoice == InvoiceCalculateTotals(
                            [InvoiceGetByID(invoiceID) EXCEPT !.TaxRate = taxRate], items, now)
         IN  InvoiceUpdate(invoice, fault)

\* invoiceService.CalculateTotals: the error and the invoices table it leaves
CalculateTotalsResult(invoiceID, taxRate, lineItemRows, fault) ==
    IF ~InvoiceExists(invoiceID) THEN [err |-> "invoice not found", invoices |-> invoices]
    ELSE LET rows == SortByDate({r \in lineItemRows : r.invoice_id = invoiceID})
             items == [k \in DOMAIN rows |-> [Amount |-> rows[k].amount]]
             invoice == InvoiceCalculateTotals(
                            [InvoiceGetByID(invoiceID) EXCEPT !.TaxRate = taxRate], items, now)
         IN  InvoiceUpdate(invoice, fault)

CalculateTotals(invoiceID, taxRate, fault) ==
    LET res == CalculateTotalsResult(invoiceID, taxRate, invoice_line_items, fault)
    IN  /\ invoices' = res.invoices
        /\ last' = Call("CalculateTotals", invoiceID, Some(taxRate),
                        IF Repeats("CalculateTotals", invoiceID, Some(taxRate)) THEN 1 ELSE 0,
                        res.err)
        /\ UNCHANGED <<now, clients, active_timer, time_entries, entry_history,
                       invoice_line_items, line_item_seq, obs, timer_runs>>

RemoveFaults == {"none", "delete", "invoice"}

RemoveEntryError(invoiceID, entryID) ==
    IF ~InvoiceExists(invoiceID) THEN "invoice not found"
    ELSE IF ~CanEdit(InvoiceGetByID(invoiceID)) THEN "invoice is not editable"
    ELSE IF \A k \in DOMAIN GetLineItems(invoiceID) : GetLineItems(invoiceID)[k].EntryID # entryID
         THEN "line item for entry not found on invoice"
    ELSE ""

RemoveEntryFromInvoice(invoiceID, entryID, fault) ==
    LET guard == RemoveEntryError(invoiceID, entryID)
        items == GetLineItems(invoiceID)
        target == items[CHOOSE k \in DOMAIN items :
                          /\ items[k].EntryID = entryID
                          /\ \A j \in 1..(k - 1) : items[j].EntryID # entryID]
        deleted == IF guard = "" /\ fault # "delete"
                   THEN {r \in invoice_line_items : r.id # target.ID}
                   ELSE invoice_line_items
        res == CalculateTotalsResult(invoiceID, invoices[invoiceID].tax_rate, deleted,
                                     fault = "invoice")
        err == IF guard # "" THEN guard
               ELSE IF fault = "delete" THEN "storage" ELSE res.err
    IN  /\ invoice_line_items' = deleted
        /\ invoices' = IF guard = "" /\ fault # "delete" THEN res.invoices ELSE invoices
        /\ last' = Call("RemoveEntryFromInvoice", invoiceID, Some(entryID), 0, err)
        /\ UNCHANGED <<now, clients, active_timer, time_entries, entry_history,
                       line_item_seq, obs, timer_runs>>

FinalizeFaults == {"none", "lock", "commit", "invoice"}

\* the guard of Finalize without the check for line items
FinalizeErrorEmptyAllowed(invoiceID) ==
    IF ~InvoiceExists(invoiceID) THEN "invoice not found"
    ELSE IF ~CanEdit(InvoiceGetByID(invoiceID)) THEN "invoice is not editable"
    ELSE ""

FinalizeError(invoiceID) ==
    IF ~InvoiceExists(invoiceID) THEN "invoice not found"
    ELSE IF ~CanEdit(InvoiceGetByID(invoiceID)) THEN "invoice is not editable"
    ELSE IF GetLineItems(invoiceID) = <<>> THEN "cannot finalize invoice with no line items"
    ELSE ""

Finalize(invoiceID, fault) ==
    LET guard == FinalizeError(invoiceID)
        items == GetLineItems(invoiceID)
        entryIDs == [k \in DOMAIN items |-> items[k].EntryID]
        lock == LockForInvoice(entryIDs, invoiceID, fault)
        upd == InvoiceUpdate(InvoiceFinalize(InvoiceGetByID(invoiceID), now), fault = "invoice")
        err == IF guard # "" THEN guard
               ELSE IF lock.err # "" THEN "failed to lock entries"
               ELSE upd.err
    IN  /\ time_entries' = IF guard = "" THEN lock.entries ELSE time_entries
        /\ invoices' = IF guard = "" /\ lock.err = "" THEN upd.invoices ELSE invoices
        /\ last' = Call("Finalize", invoiceID, NULL, 0, err)
        /\ UNCHANGED <<now, clients, active_timer, entry_history, invoice_line_items,
                       line_item_seq, obs, timer_runs>>

\* MarkSent without the refusal of a Draft
MarkSentFromAnyStatus(invoiceID, fault) ==
    LET res == IF ~InvoiceExists(invoiceID) THEN [err |-> "invoice not found", invoices |-> invoices]
               ELSE InvoiceUpdate([InvoiceGetByID(invoiceID) EXCEPT !.Status = "sent",
                                                                   !.UpdatedAt = now], fault)
    IN  /\ invoices' = res.invoices
        /\ last' = Call("MarkSent", invoiceID, NULL, 0, res.err)
        /\ UNCHANGED <<now, clients, active_timer, time_entries, entry_history,
                       invoice_line_items, line_item_seq, obs, timer_runs>>

MarkSent(invoiceID, fault) ==
    LET res == IF ~InvoiceExists(invoiceID) THEN [err |-> "invoice not found", invoices |-> invoices]
               ELSE IF InvoiceGetByID(invoiceID).Status = "draft"
                    THEN [err |-> "cannot mark draft invoice as sent", invoices |-> invoices]
               ELSE InvoiceUpdate([InvoiceGetByID(invoiceID) EXCEPT !.Status = "sent",
                                                                   !.UpdatedAt = now], fault)
    IN  /\ invoices' = res.invoices
        /\ last' = Call("MarkSent", invoiceID, NULL, 0, res.err)
        /\ UNCHANGED <<now, clients, active_timer, time_entries, entry_history,
                       invoice_line_items, line_item_seq, obs, timer_runs>>

\* MarkPaid that refuses a Draft
MarkPaidRefusingDraft(invoiceID, paidDate, fault) ==
    LET res == IF ~InvoiceExists(invoiceID) THEN [err |-> "invoice not found", invoices |-> invoices]
               ELSE IF InvoiceGetByID(invoiceID).Status = "draft"
                    THEN [err |-> "cannot mark draft invoice as paid", invoices |-> invoices]
               ELSE InvoiceUpdate([InvoiceGetByID(invoiceID) EXCEPT !.Status = "paid",
                                                                   !.PaidDate = Some(paidDate),
                                                                   !.UpdatedAt = now], fault)
    IN  /\ invoices' = res.invoices
        /\ last' = Call("MarkPaid", invoiceID, Some(paidDate), 0, res.err)
        /\ UNCHANGED <<now, clients, active_timer, time_entries, entry_history,
                       invoice_line_items, line_item_seq, obs, timer_runs>>

MarkPaid(invoiceID, paidDate, fault) ==
    LET res == IF ~InvoiceExists(invoiceID) THEN [err |-> "invoice not found", invoices |-> invoices]
               ELSE InvoiceUpdate([InvoiceGetByID(invoiceID) EXCEPT !.Status = "paid",
                                                                   !.PaidDate = Some(paidDate),
                                                                   !.UpdatedAt = now], fault)
    IN  /\ invoices' = res.invoices
        /\ last' = Call("MarkPaid", invoiceID, Some(paidDate), 0, res.err)
        /\ UNCHANGED <<now, clients, active_timer, time_entries, entry_history,
                       invoice_line_items, line_item_seq, obs, timer_runs>>

\* a caller of the repository stores a due date: GetByID, set DueDate, Update
\* (Update writes due_date whenever DueDate is set)
SetDueDate(invoiceID, dueDate, fault) ==
    LET res == IF ~InvoiceExists(invoiceID) THEN [err |-> "invoice not found", invoices |-> invoices]
               ELSE InvoiceUpdate([InvoiceGetByID(invoiceID) EXCEPT !.DueDate = Some(dueDate)], fault)
    IN  /\ invoices' = res.invoices
        /\ last' = Call("SetDueDate", invoiceID, Some(dueDate), 0, res.err)
        /\ UNCHANGED <<now, clients, active_timer, time_entries, entry_history,
                       invoice_line_items, line_item_seq, obs, timer_runs>>

\* CheckOverdue that takes every Sent invoice for one past its due date
PastDueAnySent == {k \in DOMAIN invoices : invoices[k].status = "sent"}

\* CheckOverdue: the Sent invoices whose due date has passed
PastDue ==
    {k \in DOMAIN invoices :
        /\ invoices[k].status = "sent"
        /\ invoices[k].due_date # NULL
        /\ now > parseTime(Val(invoices[k].due_date))}

\* `done` are the invoices updated before the loop ends: all of PastDue, or,
\* when an Update fails, the ones that List (ORDER BY created_at DESC) put first
CheckOverdue(done) ==
    /\ done \subseteq PastDue
    /\ \A a \in done, b \in PastDue \ done : invoices[b].created_at <= invoices[a].created_at
    /\ invoices' = [k \in DOMAIN invoices |->
                      IF k \in done
                      THEN [invoices[k] EXCEPT !.status = "overdue", !.updated_at = FormatTime(now)]
                      ELSE invoices[k]]
    /\ last' = Call("CheckOverdue", 0, NULL, 0, IF done = PastDue THEN "" ELSE "storage")
    /\ UNCHANGED <<now, clients, active_timer, time_entries, entry_history,
                   invoice_line_items, line_item_seq, obs, timer_runs>>

\* ---------------------------------------------------- cli: reset invoices
\* the statement that fails; the statements before it are committed one by one
ResetFaults == {"none", "unlock", "items", "invoices"}

Unlocked(entries) == [k \in DOMAIN entries |-> [entries[k] EXCEPT !.invoice_id = NULL]]

\* a reset that deletes the invoices and leaves the entries locked
ResetInvoicesKeepingLocks(fault) ==
    /\ time_entries' = time_entries
    /\ invoice_line_items' = IF fault \in {"unlock", "items"} THEN invoice_line_items ELSE {}
    /\ invoices' = IF fault = "none" THEN <<>> ELSE invoices
    /\ last' = Call("ResetInvoices", 0, NULL,
                    Cardinality({k \in DOMAIN time_entries : time_entries[k].invoice_id # NULL}),
                    IF fault = "none" THEN "" ELSE "storage")
    /\ UNCHANGED <<now, clients, active_timer, entry_history, line_item_seq, obs, timer_runs>>

\* reset invoices, confirmed: UPDATE time_entries SET invoice_id = NULL ...,
\* DELETE FROM invoice_line_items, DELETE FROM invoices; ret is the number of
\* entries that were locked
ResetInvoices(fault) ==
    /\ time_entries' = IF fault = "unlock" THEN time_entries ELSE Unlocked(time_entries)
    /\ invoice_line_items' = IF fault \in {"unlock", "items"} THEN invoice_line_items ELSE {}
    /\ invoices' = IF fault = "none" THEN <<>> ELSE invoices
    /\ last' = Call("ResetInvoices", 0, NULL,
                    Cardinality({k \in DOMAIN time_entries : time_entries[k].invoice_id # NULL}),
                    IF fault = "none" THEN "" ELSE "storage")
    /\ UNCHANGED <<now, clients, active_timer, entry_history, line_item_seq, obs, timer_runs>>

\* ------------------------------------------------------------------- Init
IdleObs == [whole |-> TRUE, t0 |-> 0, paused |-> 0, since |-> NULL]

Init ==
    /\ now = 0
    /\ clients = [c \in {1, 2} |-> [hourly_rate |-> IF c = 1 THEN 100 ELSE 50,
                                    is_archived |-> FALSE]]
    /\ active_timer = {}
    /\ time_entries = <<>>
    /\ entry_history = <<>>
    /\ invoices = <<>>
    /\ invoice_line_items = {}
    /\ line_item_seq = 0
    /\ last = Call("init", 0, NULL, 0, "")
    /\ obs = IdleObs
    /\ timer_runs = <<>>

\* ------------------------------------------------------------- the clock
Whole(t) == t % TicksPerSecond = 0

Tick ==
    /\ now < MaxTime
    /\ now' = now + 1
    /\ UNCHANGED <<clients, active_timer, time_entries, entry_history, invoices,
                   invoice_line_items, line_item_seq, last, obs, timer_runs>>

\* ------------------------------------------------- service.timerService
\* Start without the check for an existing timer
StartErrorNoTimerCheck(clientID) == IF ~ClientExists(clientID) THEN "client not found" ELSE ""

StartError(clientID) ==
    IF ~ClientExists(clientID) THEN "client not found"
    ELSE IF TimerGet # NULL THEN "timer is already running"
    ELSE ""

Start(clientID, description, fault) ==
    LET err == IF StartError(clientID) # "" THEN StartError(clientID)
               ELSE IF fault THEN "storage" ELSE ""
    IN  /\ Len(time_entries) < MaxEntries
        /\ active_timer' = IF err = "" THEN TimerSave(active_timer, NewActiveTimer(clientID, description, now))
                           ELSE active_timer
        /\ obs' = IF err = "" THEN [whole |-> Whole(now), t0 |-> now, paused |-> 0, since |-> NULL]
                  ELSE obs
        /\ last' = Call("Start", clientID, NULL, 0, err)
        /\ UNCHANGED <<now, clients, time_entries, entry_history, invoices,
                       invoice_line_items, line_item_seq, timer_runs>>

\* Pause without the check of the timer's state
PauseErrorNoStateCheck == IF TimerGet = NULL THEN "no active timer" ELSE ""

PauseError ==
    IF TimerGet = NULL THEN "no active timer"
    ELSE IF State(Val(TimerGet)) # "running" THEN "timer is not running"
    ELSE ""

Pause(fault) ==
    LET err == IF PauseError # "" THEN PauseError ELSE IF fault THEN "storage" ELSE ""
    IN  /\ active_timer' = IF err = "" THEN TimerSave(active_timer, ActiveTimerPause(Val(TimerGet), now))
                           ELSE active_timer
        /\ obs' = IF err = "" THEN [obs EXCEPT !.whole = @ /\ Whole(now), !.since = Some(now)]
                  ELSE obs
        /\ last' = Call("Pause", 0, NULL, 0, err)
        /\ UNCHANGED <<now, clients, time_entries, entry_history, invoices,
                       invoice_line_items, line_item_seq, timer_runs>>

\* Resume with a single error for every state other than Paused
ResumeErrorOneKind ==
    IF TimerGet = NULL \/ State(Val(TimerGet)) # "paused" THEN "timer is not paused" ELSE ""

ResumeError ==
    IF TimerGet = NULL THEN "no active timer"
    ELSE IF State(Val(TimerGet)) # "paused" THEN "timer is not paused"
    ELSE ""

Resume(fault) ==
    LET err == IF ResumeError # "" THEN ResumeError ELSE IF fault THEN "storage" ELSE ""
    IN  /\ active_timer' = IF err = "" THEN TimerSave(active_timer, ActiveTimerResume(Val(TimerGet), now))
                           ELSE active_timer
        /\ obs' = IF err = ""
                  THEN [obs EXCEPT !.whole = @ /\ Whole(now),
                                   !.paused = @ + (now - Val(obs.since)),
                                   !.since = NULL]
                  ELSE obs
        /\ last' = Call("Resume", 0, NULL, 0, err)
        /\ UNCHANGED <<now, clients, time_entries, entry_history, invoices,
                       invoice_line_items, line_item_seq, timer_runs>>

StopError ==
    IF TimerGet = NULL THEN "no active timer"
    ELSE IF ~ClientExists(Val(TimerGet).ClientID) THEN "client not found"
    ELSE ""

\* the real timing of the run that Stop closes at `at`
RunOf(o, at) ==
    [whole |-> o.whole /\ Whole(at),
     wall |-> at - o.t0,
     paused |-> o.paused + (IF o.since # NULL THEN at - Val(o.since) ELSE 0)]

StopFaults == {"none", "create", "delete"}

Stop(fault) ==
    /\ TimerGet = NULL \/ Len(time_entries) < MaxEntries
    /\ LET entry == ToTimeEntry(Val(TimerGet), clients[Val(TimerGet).ClientID].hourly_rate, now)
           err == IF StopError # "" THEN StopError
                  ELSE IF CreateError(entry) # "" THEN CreateError(entry)
                  ELSE IF fault # "none" THEN "storage" ELSE ""
           created == StopError = "" /\ CreateError(entry) = "" /\ fault # "create"
           deleted == created /\ fault # "delete"
       IN  /\ time_entries' = IF created THEN Append(time_entries, EntryRow(entry)) ELSE time_entries
           /\ timer_runs' = IF created
                            THEN timer_runs @@ ((Len(time_entries) + 1) :> RunOf(obs, now))
                            ELSE timer_runs
           /\ active_timer' = IF deleted THEN TimerDelete(active_timer) ELSE active_timer
           /\ obs' = IF deleted THEN IdleObs ELSE obs
           /\ last' = Call("Stop", 0, NULL, IF err = "" THEN Len(time_entries) + 1 ELSE 0, err)
    /\ UNCHANGED <<now, clients, entry_history, invoices, invoice_line_items, line_item_seq>>

\* Discard without the check for an existing timer
DiscardErrorNoTimerCheck == ""

DiscardError == IF TimerGet = NULL THEN "no active timer" ELSE ""

Discard(fault) ==
    LET err == IF DiscardError # "" THEN DiscardError ELSE IF fault THEN "storage" ELSE ""
    IN  /\ active_timer' = IF err = "" THEN TimerDelete(active_timer) ELSE active_timer
        /\ obs' = IF err = "" THEN IdleObs ELSE obs
        /\ last' = Call("Discard", 0, NULL, 0, err)
        /\ UNCHANGED <<now, clients, time_entries, entry_history, invoices,
                       invoice_line_items, line_item_seq, timer_runs>>

\* ------------------------------------------------ the timer specification
StartInputs == {<<1, "a">>, <<2, "b">>, <<3, "a">>}

DoStart == \E i \in StartInputs, f \in BOOLEAN : Start(i[1], i[2], f)

DoPause == \E f \in BOOLEAN : Pause(f)

DoResume == \E f \in BOOLEAN : Resume(f)

DoStop == \E f \in StopFaults : Stop(f)

DoDiscard == \E f \in BOOLEAN : Discard(f)

SpecTimer ==
    Init /\ [][Tick \/ DoStart \/ DoPause \/ DoResume \/ DoStop
               \/ DoDiscard]_vars

\* ------------------------------------------------- crash and restart
\* The process exits abruptly between two calls and is started again: the
\* tables are what they were (the schema is at its version, RunMigrations
\* writes nothing), and RecoverFromCrash reads the timer row and returns.
\* A recovery that clears the timer it finds
RecoverFromCrashClearing(fault) ==
    /\ active_timer' = IF fault THEN active_timer ELSE TimerDelete(active_timer)
    /\ last' = Call("RecoverFromCrash", 0, NULL, 0, IF fault THEN "storage" ELSE "")
    /\ UNCHANGED <<now, clients, time_entries, entry_history, invoices,
                   invoice_line_items, line_item_seq, obs, timer_runs>>

RecoverFromCrash(fault) ==
    /\ last' = Call("RecoverFromCrash", 0, NULL, 0, IF fault THEN "storage" ELSE "")
    /\ UNCHANGED <<now, clients, active_timer, time_entries, entry_history, invoices,
                   invoice_line_items, line_item_seq, obs, timer_runs>>

DoRecoverFromCrash == \E f \in BOOLEAN : RecoverFromCrash(f)

SpecRecovery ==
    Init /\ [][Tick \/ DoStart \/ DoPause \/ DoResume \/ DoRecoverFromCrash]_vars

\* --------------------------------------------------------- tui.Model
Screens == {"dashboard", "timer", "entries", "clients", "invoices", "reports", "settings"}

\* the screens that implement InputCapturer
Capturers == {"timer", "entries", "clients", "invoices"}

\* Model.Update on a key of DefaultKeyMap.Quit ("q", "ctrl+c").  While the
\* current screen captures input the key goes to the screen, and no screen
\* quits.  Otherwise GetActiveTimer is called and its error dropped: the
\* program quits (ret = 1) unless a timer was read.
QuitKey(screen, capturing, fault) ==
    LET t == IF fault THEN NULL ELSE TimerGet
        blocked == ~capturing /\ t # NULL
    IN  /\ capturing => screen \in Capturers
        /\ last' = Call("QuitKey", 0, <<screen, capturing>>,
                        IF capturing \/ blocked THEN 0 ELSE 1,
                        IF blocked THEN "Timer is running. Stop or discard it before quitting."
                        ELSE "")
        /\ UNCHANGED <<now, clients, active_timer, time_entries, entry_history, invoices,
                       invoice_line_items, line_item_seq, obs, timer_runs>>

DoQuitKey == \E s \in Screens, c \in BOOLEAN, f \in BOOLEAN : QuitKey(s, c, f)

SpecQuit ==
    Init /\ [][DoStart \/ DoPause \/ DoResume \/ DoStop \/ DoDiscard
               \/ DoQuitKey]_vars

\* a timer stopped while the client's rate is edited
ClientRates == {0 - 1, 75, 100}

DoClientUpdate == \E c \in {1, 3}, r \in ClientRates, f \in BOOLEAN : ClientUpdate(c, r, f)

SpecStop ==
    Init /\ [][Tick \/ DoStart \/ DoPause \/ DoStop \/ DoClientUpdate]_vars

\* ----------------------------------------- entries and invoices: the callers
OneHour == TicksPerSecond * SecondsPerHour

\* entries add: <<client, description, start, end>>
EntryInputs == {<<1, "a", 0, OneHour>>, <<2, "b", 0, OneHour>>}

\* the values a caller may put into a field of the entry it loaded
StartTimes == {ZeroTime, 0, 1, TicksPerSecond}

EndTimes == {NULL, Some(OneHour), Some(OneHour + TicksPerSecond)}

DurationValues == {Some(SecondsPerHour), Some(SecondsPerHour \div 2)}

HourlyRates == {0 - 1, 50, 100}

\* entries edit: GetByID, change a field (or two), Update
EditsOf(e) ==
    {[e EXCEPT !.ClientID = c] : c \in ClientIDs \cup {0}}
    \cup {[e EXCEPT !.Description = d] : d \in Descriptions}
    \cup {[e EXCEPT !.StartTime = t] : t \in StartTimes}
    \cup {[e EXCEPT !.EndTime = t] : t \in EndTimes}
    \cup {[e EXCEPT !.DurationSeconds = d] : d \in DurationValues}
    \cup {[e EXCEPT !.HourlyRate = r] : r \in HourlyRates}
    \cup {[e EXCEPT !.Description = d, !.IsBillable = b] : d \in Descriptions, b \in BOOLEAN}

\* an Update for an id no row has
UnknownEntry(id) ==
    [ID |-> id, ClientID |-> 1, Description |-> "a", StartTime |-> 0,
     EndTime |-> Some(OneHour), DurationSeconds |-> Some(SecondsPerHour),
     HourlyRate |-> 100, IsBillable |-> TRUE, IsDeleted |-> FALSE,
     InvoiceID |-> NULL, CreatedAt |-> now, UpdatedAt |-> now]

UpdateRequests(id) ==
    IF EntryExists(id) THEN EditsOf(EntryGetByID(id)) ELSE {UnknownEntry(id)}

DoCreateEntry == \E in \in EntryInputs, f \in BOOLEAN : CreateEntry(in[1], in[2], in[3], in[4], f)

\* a call that is not refused is taken while fewer than MaxHistory rows are written
DoUpdate ==
    \E id \in EntryIDs, r \in Reasons, f \in UpdateFaults :
        \E e \in UpdateRequests(id) :
            /\ (UpdateGuardError(e) = "") => Len(entry_history) < MaxHistory
            /\ Update(e, r, f)

DoSoftDelete ==
    \E id \in EntryIDs, r \in Reasons, f \in SoftDeleteFaults :
        /\ (SoftDeleteGuardError(id) = "") => Len(entry_history) < MaxHistory
        /\ SoftDelete(id, r, f)

\* edits and deletions that follow one another on the same entry
AuditUpdate ==
    \E id \in EntryIDs, r \in Reasons, f \in UpdateFaults :
        \E e \in UpdateRequests(id) :
            /\ (UpdateGuardError(e) = "") => Len(entry_history) <= MaxHistory
            /\ Update(e, r, f)

AuditSoftDelete ==
    \E id \in EntryIDs, r \in Reasons, f \in SoftDeleteFaults :
        /\ (SoftDeleteGuardError(id) = "") => Len(entry_history) <= MaxHistory
        /\ SoftDelete(id, r, f)


InvoiceIDs == 1..(MaxInvoices + 1)

DoCreateDraft ==
    /\ Len(invoices) < MaxInvoices
    /\ \E c \in ClientIDs, p \in Periods, x \in Prefixes, f \in BOOLEAN :
           CreateDraft(c, p[1], p[2], x, f)

DoAddEntries ==
    \E i \in InvoiceIDs, ids \in EntryIDLists, k \in 0..2 : AddEntriesToInvoice(i, ids, k)

DoRemoveEntry ==
    \E i \in InvoiceIDs, e \in EntryIDs, f \in RemoveFaults : RemoveEntryFromInvoice(i, e, f)

DoCalculateTotals ==
    \E i \in InvoiceIDs, t \in TaxRates, f \in BOOLEAN : CalculateTotals(i, t, f)

DoFinalize == \E i \in InvoiceIDs, f \in FinalizeFaults : Finalize(i, f)

DoMarkSent == \E i \in InvoiceIDs, f \in BOOLEAN : MarkSent(i, f)

\* mark-paid --date: today or a given day
PaidDates == {0, OneHour}

DoMarkPaid == \E i \in InvoiceIDs, d \in PaidDates \cup {now}, f \in BOOLEAN : MarkPaid(i, d, f)

DoCheckOverdue == \E done \in SUBSET (DOMAIN invoices) : CheckOverdue(done)

\* editing and deleting entries while invoices are drafted and finalized
SpecEntry ==
    Init /\ [][DoCreateEntry \/ DoUpdate \/ DoSoftDelete \/ DoCreateDraft
               \/ DoAddEntries \/ DoFinalize]_vars

\* the statuses of an invoice; a due date is before, at or after the time
\* of the calls
DueDates == {0 - OneHour, 0, OneHour}

DoSetDueDate == \E i \in InvoiceIDs, d \in DueDates, f \in BOOLEAN : SetDueDate(i, d, f)

StatusDraft ==
    /\ Len(invoices) < MaxInvoices
    /\ \E p \in Periods, x \in Prefixes : CreateDraft(1, p[1], p[2], x, FALSE)

StatusEntry == \E in \in EntryInputs : in[1] = 1 /\ CreateEntry(in[1], in[2], in[3], in[4], FALSE)

StatusAdd == \E i \in InvoiceIDs, ids \in EntryIDLists : Len(ids) = 1 /\ AddEntriesToInvoice(i, ids, 0)

SpecStatus ==
    Init /\ [][StatusEntry \/ StatusDraft \/ StatusAdd \/ DoFinalize
               \/ DoMarkSent \/ DoMarkPaid \/ DoSetDueDate
               \/ DoCheckOverdue]_vars

\* the history of entries that are edited and deleted again and again
SpecAudit ==
    Init /\ [][DoCreateEntry \/ AuditUpdate \/ AuditSoftDelete]_vars

\* entries and line items of a client whose rate is edited and who is
\* archived and unarchived
DoSetArchived == \E c \in {1, 3}, a \in BOOLEAN, f \in BOOLEAN : SetArchived(c, a, f)

SpecRates ==
    Init /\ [][DoCreateEntry \/ StatusDraft \/ StatusAdd \/ DoClientUpdate
               \/ DoSetArchived]_vars

\* invoices finalized and reset, entries edited and deleted afterwards
DoResetInvoices == \E f \in ResetFaults : ResetInvoices(f)

SpecReset ==
    Init /\ [][StatusEntry \/ StatusDraft \/ StatusAdd \/ DoFinalize
               \/ DoResetInvoices \/ DoUpdate \/ DoSoftDelete]_vars

\* the life cycle as the services offer it, with the clock running: the
\* clock does not stop before MaxTime, and CheckOverdue is called again and
\* again without a storage fault
SpecLifecycle ==
    /\ Init
    /\ [][Tick \/ StatusEntry \/ StatusDraft \/ StatusAdd \/ DoCalculateTotals
           \/ DoFinalize \/ DoMarkSent \/ DoCheckOverdue]_vars
    /\ WF_vars(Tick) /\ WF_vars(CheckOverdue(PastDue))

\* the invoice life cycle over manually created entries
SpecInvoice ==
    Init /\ [][DoCreateEntry \/ DoSoftDelete \/ DoCreateDraft
               \/ DoAddEntries \/ DoRemoveEntry \/ DoCalculateTotals
               \/ DoFinalize \/ DoMarkSent \/ DoMarkPaid \/ DoCheckOverdue]_vars

\* a timer run with at most one pause, stopped and put on an invoice
SpecBilling ==
    Init /\ [][Tick \/ DoStart \/ DoPause \/ DoStop \/ DoCreateDraft
               \/ DoAddEntries]_vars

\* ------------------------------------------------ invoice numbering
\* the invoices table after n drafts were made for client 1 with the default
\* prefix for the first billing period: INV-2026-001 .. INV-2026-n
DraftsIssued(n) ==
    [k \in 1..n |-> InvoiceRow(NewInvoice(FormatInvoiceNumber(PrefixINV, Year(OneHour), k),
                                          1, 0, OneHour, 0))]

\* how many drafts exist when the observation starts
ExistingCounts == {0, 9, 99, 999}

NumberPrefixes == {PrefixINV, PrefixInv, PrefixACME}

\* billing periods ending in 2026 and in 2027
NumberPeriods == {<<0, OneHour>>, <<0, OneHour * 24 * 365>>}

NumberYears == {Year(p[2]) : p \in NumberPeriods}

InitNumbering ==
    /\ now = 0
    /\ clients = [c \in {1, 2} |-> [hourly_rate |-> IF c = 1 THEN 100 ELSE 50,
                                    is_archived |-> FALSE]]
    /\ active_timer = {}
    /\ time_entries = <<>>
    /\ entry_history = <<>>
    /\ \E n \in ExistingCounts : invoices = DraftsIssued(n)
    /\ invoice_line_items = {}
    /\ line_item_seq = 0
    /\ last = Call("init", 0, NULL, 0, "")
    /\ obs = IdleObs
    /\ timer_runs = <<>>

\* invoice create --prefix: at most MaxIssued further drafts
DoIssueDraft ==
    /\ \E n \in ExistingCounts : n <= Len(invoices) /\ Len(invoices) < n + MaxIssued
    /\ \E c \in {1, 3}, p \in NumberPeriods, x \in NumberPrefixes, f \in BOOLEAN :
           CreateDraft(c, p[1], p[2], x, f)

SpecNumbering ==
    InitNumbering /\ [][DoIssueDraft]_vars

\* ================================================================ claims
TimerOps == {"Start", "Pause", "Resume", "Stop", "Discard"}

\* a step that is the call of `op` (the clock stands still during a call)
Called(op) == now' = now /\ last'.op = op

Succeeded == last'.err = ""

\* C3: the timer state machine.  Idle: only Start succeeds.  Running: only
\* Pause, Stop and Discard succeed; Resume fails with "timer is not paused",
\* Start (for an existing client) with "timer is already running".  Paused:
\* only Resume, Stop and Discard succeed.  Start leads to Running, Pause to
\* Paused, Resume to Running, Stop and Discard to Idle; a failed call leaves
\* the timer as it was; a call the state allows fails only on a storage error
\* (or, for Start, an unknown client).
C3_Transitions ==
    /\ Called("Start") /\ Succeeded => GetState = "idle" /\ GetState' = "running"
    /\ Called("Pause") /\ Succeeded => GetState = "running" /\ GetState' = "paused"
    /\ Called("Resume") /\ Succeeded => GetState = "paused" /\ GetState' = "running"
    /\ Called("Stop") /\ Succeeded => GetState \in {"running", "paused"} /\ GetState' = "idle"
    /\ Called("Discard") /\ Succeeded => GetState \in {"running", "paused"} /\ GetState' = "idle"

C3_Errors ==
    /\ Called("Resume") /\ GetState = "running" => last'.err = "timer is not paused"
    /\ Called("Start") /\ GetState # "idle" =>
           last'.err = IF ClientExists(last'.id) THEN "timer is already running"
                       ELSE "client not found"
    /\ Called("Start") /\ GetState = "idle" => last'.err \in {"", "storage", "client not found"}
    /\ Called("Pause") /\ GetState = "running" => last'.err \in {"", "storage"}
    /\ Called("Resume") /\ GetState = "paused" => last'.err \in {"", "storage"}
    /\ (Called("Stop") \/ Called("Discard")) /\ GetState # "idle" => last'.err \in {"", "storage"}
    /\ (\E op \in TimerOps : Called(op)) /\ ~Succeeded =>
           active_timer' = active_timer /\ GetState' = GetState

C3_TimerStateMachine == [][C3_Transitions /\ C3_Errors]_vars

C3_Witness ==
    /\ last.op = "Stop" /\ last.err = "" /\ GetState = "idle"
    /\ \E e \in DOMAIN timer_runs : timer_runs[e].paused > 0

\* C4: at most one active timer row exists in every reachable state, and Start
\* while a timer exists (Running or Paused, for the same or another client)
\* fails with "timer is already running" and leaves the timer row (client,
\* description, start, pause timestamp, paused seconds) unchanged.
C4_StartRefused ==
    Called("Start") /\ active_timer # {} =>
        /\ ~Succeeded
        /\ ClientExists(last'.id) => last'.err = "timer is already running"
        /\ active_timer' = active_timer

C4_SingleTimer == [](Cardinality(active_timer) <= 1) /\ [][C4_StartRefused]_vars

C4_Witness ==
    /\ last.op = "Start" /\ last.err = "timer is already running"
    /\ \E r \in active_timer : r.client_id # last.id /\ r.paused_at # NULL

\* C5: for a run whose Start, Pause, Resume and Stop calls all fall on whole
\* seconds, the duration recorded on the entry that Stop creates is the wall
\* time from Start to Stop minus the total length of the paused intervals.
C5_RecordedDuration ==
    \A e \in DOMAIN timer_runs :
        timer_runs[e].whole =>
            time_entries[e].duration_seconds
                = Some((timer_runs[e].wall - timer_runs[e].paused) \div TicksPerSecond)

C5_Witness ==
    \E e \in DOMAIN timer_runs :
        /\ timer_runs[e].whole
        /\ 0 < timer_runs[e].paused /\ timer_runs[e].paused < timer_runs[e].wall
        /\ time_entries[e].duration_seconds # NULL

\* ------------------------------------------------------- entries: C1 C7 C8
Locked(id) == id \in DOMAIN time_entries /\ time_entries[id].invoice_id # NULL

EntryUntouched(id) == time_entries'[id] = time_entries[id] /\ entry_history' = entry_history

\* C1 (as amended): on an entry whose invoice reference is non-null,
\* SoftDelete always fails with the locked error and Update always fails,
\* with the locked error when the entry it is given passes Validate and with
\* the validation error otherwise; the failed call leaves the entry's row,
\* its deleted flag and the history rows unchanged.
C1_UpdateRefused ==
    \A id \in DOMAIN time_entries :
        Locked(id) /\ Called("Update") /\ last'.id = id =>
            /\ last'.err = IF last'.req[2] THEN "locked" ELSE "invalid"
            /\ EntryUntouched(id)

C1_SoftDeleteRefused ==
    \A id \in DOMAIN time_entries :
        Locked(id) /\ Called("SoftDelete") /\ last'.id = id =>
            last'.err = "locked" /\ EntryUntouched(id)

ColumnText(row, field) ==
    CASE field = "client_id" -> ToString(row.client_id)
      [] field = "description" -> row.description
      [] field = "start_time" -> ToString(row.start_time)
      [] field = "end_time" -> IF row.end_time = NULL THEN "" ELSE ToString(Val(row.end_time))
      [] field = "duration_seconds" ->
            IF row.duration_seconds = NULL THEN "" ELSE ToString(Val(row.duration_seconds))
      [] field = "hourly_rate" -> FormatRate(row.hourly_rate)
      [] field = "is_billable" -> FormatBool(row.is_billable)

AuditedFields ==
    {"client_id", "description", "start_time", "end_time", "hourly_rate", "is_billable"}

EntryFields == AuditedFields \cup {"duration_seconds"}

\* the history rows the step adds for a field of an entry
AddedRows(id, field) ==
    {k \in (Len(entry_history) + 1)..Len(entry_history') :
        entry_history'[k].entry_id = id /\ entry_history'[k].field_name = field}

\* the step audits the field: one row old -> new with the reason when the
\* column changed, no row when it did not
FieldAudited(id, field) ==
    LET a == ColumnText(time_entries[id], field)
        b == ColumnText(time_entries'[id], field)
    IN  IF a # b
        THEN /\ Cardinality(AddedRows(id, field)) = 1
             /\ \A k \in AddedRows(id, field) :
                    /\ entry_history'[k].old_value = a
                    /\ entry_history'[k].new_value = b
                    /\ entry_history'[k].change_reason = last'.req[1]
        ELSE AddedRows(id, field) = {}

\* C7 as stated: a successful Update adds, for every entry field (client,
\* description, start time, end time, duration, hourly rate, billable flag)
\* that it changes from a to b, exactly one history row with that field,
\* old a, new b and the caller's reason, and no row for an unchanged field.
C7_AuditComplete ==
    [][Called("Update") /\ Succeeded =>
          \A field \in EntryFields : FieldAudited(last'.id, field)]_vars

\* a successful Update changed the stored duration and added no history row
C7_Witness ==
    /\ last.op = "Update" /\ last.err = ""
    /\ time_entries[last.id].duration_seconds # Some(SecondsPerHour)
    /\ entry_history = <<>>

\* C8 as stated: after Update either the row carries the new values and a
\* history row exists for every changed field, or, on any failure, the row
\* and the history table are exactly as before the call.
C8_AllOrNothing ==
    [][Called("Update") =>
          IF Succeeded
          THEN \A field \in EntryFields :
                  ColumnText(time_entries[last'.id], field)
                      # ColumnText(time_entries'[last'.id], field)
                  => AddedRows(last'.id, field) # {}
          ELSE time_entries' = time_entries /\ entry_history' = entry_history]_vars

\* ------------------------------------------------------ invoices: C2 C9 C10
\* the entries the line items of an invoice refer to
ReferencedEntries(invoiceID) ==
    {r.entry_id : r \in {x \in invoice_line_items : x.invoice_id = invoiceID}}

\* C2 as stated: Finalize on a Draft invoice ends in one of two ways: every
\* entry its line items refer to is locked to the invoice and the invoice is
\* Finalized, or no entry is locked by the call and the invoice is still
\* Draft.  Never are entries locked while the invoice stays Draft.
C2_FinalizeAllOrNothing ==
    [][Called("Finalize") /\ InvoiceExists(last'.id) /\ invoices[last'.id].status = "draft" =>
          \/ /\ \A e \in ReferencedEntries(last'.id) :
                    EntryExists(e) /\ time_entries'[e].invoice_id = Some(last'.id)
             /\ invoices'[last'.id].status = "finalized"
          \/ /\ \A e \in DOMAIN time_entries :
                    time_entries'[e].invoice_id = time_entries[e].invoice_id
             /\ invoices'[last'.id].status = "draft"]_vars

\* a failed Finalize left an entry locked to an invoice that is still Draft
C2_Witness ==
    /\ last.op = "Finalize" /\ last.err # ""
    /\ InvoiceExists(last.id) /\ invoices[last.id].status = "draft"
    /\ \E e \in DOMAIN time_entries : time_entries[e].invoice_id = Some(last.id)

RECURSIVE SumAmounts(_)
SumAmounts(rows) ==
    IF rows = {} THEN 0
    ELSE LET r == CHOOSE x \in rows : TRUE IN r.amount + SumAmounts(rows \ {r})

\* an amount of whole currency units in the model's fixed point
Money(units) == units * SecondsPerHour * 100

\* C9: after a successful CalculateTotals(invoiceID, taxRate) the stored
\* invoice has tax rate = taxRate, subtotal = the sum of the amounts of its
\* current line items, tax amount = subtotal x taxRate and total = subtotal +
\* tax amount.
C9_TotalsComputed ==
    [][Called("CalculateTotals") /\ Succeeded =>
          LET inv == invoices'[last'.id]
              sub == SumAmounts({r \in invoice_line_items' : r.invoice_id = last'.id})
          IN  /\ inv.tax_rate = Val(last'.req)
              /\ inv.subtotal = sub
              /\ inv.tax_amount * 100 = sub * Val(last'.req)
              /\ inv.total = sub + inv.tax_amount]_vars

\* one line item of amount 100 at rate 0.10: subtotal 100, tax 10, total 110
C9_Witness ==
    /\ last.op = "CalculateTotals" /\ last.err = "" /\ last.req = Some(10)
    /\ {r.amount : r \in {x \in invoice_line_items : x.invoice_id = last.id}} = {Money(100)}
    /\ Cardinality({x \in invoice_line_items : x.invoice_id = last.id}) = 1
    /\ invoices[last.id].subtotal = Money(100)
    /\ invoices[last.id].tax_amount = Money(10)
    /\ invoices[last.id].total = Money(110)

\* C10: a successful CalculateTotals that repeats the successful call just
\* made (same invoice, same tax rate, nothing in between) leaves subtotal,
\* tax amount and total as the first call left them.
C10_Idempotent ==
    [][Called("CalculateTotals") /\ Succeeded /\ last'.ret = 1 =>
          /\ invoices'[last'.id].subtotal = invoices[last'.id].subtotal
          /\ invoices'[last'.id].tax_amount = invoices[last'.id].tax_amount
          /\ invoices'[last'.id].total = invoices[last'.id].total]_vars

\* CalculateTotals was just repeated on an invoice with a taxed line item
C10_Witness ==
    /\ last.op = "CalculateTotals" /\ last.err = "" /\ last.ret = 1
    /\ invoices[last.id].subtotal > 0
    /\ invoices[last.id].tax_amount > 0

\* ---------------------------------------------------------- billing: C6
\* the active time of a timer run, in whole seconds
ActiveSeconds(run) == (run.wall - run.paused) \div TicksPerSecond

\* C6 as stated: for an entry made by Stop (at whole-second times), the
\* entry's Duration() and Amount() and the hours and amount of every line
\* item made from it are computed from the timer's active time, not from the
\* span between its start and the stop.
C6_BilledActiveTime ==
    \A e \in DOMAIN timer_runs :
        timer_runs[e].whole /\ EntryExists(e) =>
            LET entry == EntryGetByID(e)
                active == ActiveSeconds(timer_runs[e])
            IN  /\ Duration(entry, now) = active * TicksPerSecond
                /\ Amount(entry, now) = active * entry.HourlyRate * 100
                /\ \A r \in invoice_line_items :
                       r.entry_id = e =>
                           r.hours = active /\ r.amount = active * r.rate * 100

\* a line item bills a paused timer entry for its wall-clock span
C6_Witness ==
    \E e \in DOMAIN timer_runs, r \in invoice_line_items :
        /\ timer_runs[e].whole /\ timer_runs[e].paused > 0
        /\ r.entry_id = e
        /\ r.hours * TicksPerSecond = timer_runs[e].wall
        /\ r.hours > ActiveSeconds(timer_runs[e])

\* ------------------------------------------------------- numbering: C11
\* the sequence numbers of the stored invoice numbers of a prefix and year
SequencesOf(prefix, year) ==
    {Atoi(SubSeq(invoices[k].invoice_number, Len(NumberStem(prefix, year)) + 1,
                 Len(invoices[k].invoice_number))) :
        k \in {j \in DOMAIN invoices :
                 /\ Len(invoices[j].invoice_number) > Len(NumberStem(prefix, year))
                 /\ SubSeq(invoices[j].invoice_number, 1, Len(NumberStem(prefix, year)))
                        = NumberStem(prefix, year)}}

\* prefix-year-NNN, NNN one more than the numerically highest sequence
NextByValue(prefix, year) ==
    LET seqs == SequencesOf(prefix, year)
    IN  FormatInvoiceNumber(prefix, year,
            IF seqs = {} THEN 1 ELSE 1 + CHOOSE m \in seqs : \A n \in seqs : n <= m)

C11_NextIsHighestPlusOne ==
    \A prefix \in NumberPrefixes, year \in NumberYears :
        GetNextInvoiceNumber(prefix, year) = NextByValue(prefix, year)

C11_IssuedIsNew ==
    Called("CreateDraft") /\ Succeeded =>
        /\ Len(invoices') = Len(invoices) + 1
        /\ ~NumberTaken(invoices'[Len(invoices')].invoice_number)

\* C11 as stated: for every prefix, year and set of existing invoices,
\* GetNextInvoiceNumber(prefix, year) is prefix-year-NNN with NNN one more
\* than the numerically highest sequence stored for that prefix and year,
\* zero-padded to three digits, and prefix-year-001 when there is none; every
\* number a successful CreateDraft issues differs from all existing numbers,
\* also when sequences exceed 999.
C11_NextInvoiceNumber == [](C11_NextIsHighestPlusOne) /\ [][C11_IssuedIsNew]_vars

\* with INV-2026-001 .. INV-2026-1000 stored, CreateDraft was refused for a
\* number that is taken: GetNextInvoiceNumber gives INV-2026-1000 again
C11_Witness ==
    /\ last.op = "CreateDraft" /\ last.err = "failed to create invoice"
    /\ NumberTaken(FormatInvoiceNumber(PrefixINV, Year(OneHour), 1000))
    /\ GetNextInvoiceNumber(PrefixINV, Year(OneHour))
          = FormatInvoiceNumber(PrefixINV, Year(OneHour), 1000)

\* -------------------------------------------- invoice life cycle: C12 C13 C14
LineItemsOf(invoiceID) == {r \in invoice_line_items : r.invoice_id = invoiceID}

C12_Refused ==
    (Called("AddEntriesToInvoice") \/ Called("RemoveEntryFromInvoice"))
    /\ InvoiceExists(last'.id) /\ invoices[last'.id].status # "draft" =>
        last'.err = "invoice is not editable" /\ invoice_line_items' = invoice_line_items

C12_Frozen ==
    \A i \in DOMAIN invoices :
        invoices[i].status # "draft" =>
            /\ invoices'[i].status # "draft"
            /\ {r \in invoice_line_items' : r.invoice_id = i} = LineItemsOf(i)

\* C12: AddEntriesToInvoice and RemoveEntryFromInvoice on an invoice that is
\* Finalized, Sent, Paid or Overdue fail with the not-editable error and
\* leave the line items unchanged; no step changes the line items of an
\* invoice that is not Draft, and such an invoice never is Draft again.
C12_OnlyDraftEditable == [][C12_Refused /\ C12_Frozen]_vars

\* removing an entry that has a line item on a Sent invoice was refused
C12_Witness ==
    /\ last.op = "RemoveEntryFromInvoice" /\ last.err = "invoice is not editable"
    /\ InvoiceExists(last.id) /\ invoices[last.id].status = "sent"
    /\ \E r \in LineItemsOf(last.id) : r.entry_id = Val(last.req)

LockedTo(invoiceID) ==
    \A e \in ReferencedEntries(invoiceID) :
        EntryExists(e) /\ time_entries[e].invoice_id = Some(invoiceID)

C13_Finalize ==
    Called("Finalize") /\ InvoiceExists(last'.id) =>
        /\ invoices[last'.id].status # "draft" =>
               /\ last'.err = "invoice is not editable"
               /\ invoices' = invoices /\ time_entries' = time_entries
        /\ Succeeded =>
               /\ invoices[last'.id].status = "draft"
               /\ invoices'[last'.id].status = "finalized"
               /\ \A e \in ReferencedEntries(last'.id) :
                      time_entries'[e].invoice_id = Some(last'.id)

\* C13: Finalize on an invoice that is not Draft fails with the not-editable
\* error; a successful Finalize leaves the invoice Finalized and every entry
\* its line items refer to locked to it; and in no reachable state is an
\* invoice Finalized while an entry of one of its line items is not locked
\* to it.
C13_LockBeforeStatus ==
    /\ [][C13_Finalize]_vars
    /\ [](\A i \in DOMAIN invoices : invoices[i].status = "finalized" => LockedTo(i))

C13_Witness ==
    /\ last.op = "Finalize" /\ last.err = ""
    /\ invoices[last.id].status = "finalized"
    /\ ReferencedEntries(last.id) # {} /\ LockedTo(last.id)

\* C14: Finalize on a Draft invoice without line items fails with the
\* empty-invoice error; the invoice stays Draft and no entry is locked.
C14_EmptyNotFinalized ==
    [][Called("Finalize") /\ InvoiceExists(last'.id) /\ invoices[last'.id].status = "draft"
       /\ LineItemsOf(last'.id) = {} =>
          /\ last'.err = "cannot finalize invoice with no line items"
          /\ invoices' = invoices
          /\ time_entries' = time_entries]_vars

\* an empty Draft was refused while an unlocked entry of its client exists
C14_Witness ==
    /\ last.op = "Finalize" /\ last.err = "cannot finalize invoice with no line items"
    /\ invoices[last.id].status = "draft" /\ LineItemsOf(last.id) = {}
    /\ \E e \in DOMAIN time_entries :
          time_entries[e].invoice_id = NULL /\ time_entries[e].client_id = invoices[last.id].client_id

\* ------------------------------------------- line items: C15 C16 C17 C18 C19
\* why AddEntriesToInvoice refuses an entry for an invoice, "" when it does not
EntryDefect(e, invoiceID) ==
    IF ~EntryExists(e) THEN "time entry not found"
    ELSE IF Locked(e) THEN "entry is already locked to an invoice"
    ELSE IF time_entries[e].client_id # invoices[invoiceID].client_id
         THEN "entry does not belong to invoice client"
    ELSE ""

\* C15: AddEntriesToInvoice on a Draft invoice with a listed entry that is
\* missing, locked or of another client fails, with the error of the first
\* such entry in the list (entry not found, already locked, client mismatch),
\* and creates no line item for any entry of the batch.
C15_BatchRefused ==
    [][Called("AddEntriesToInvoice") /\ InvoiceExists(last'.id)
       /\ invoices[last'.id].status = "draft"
       /\ (\E k \in DOMAIN last'.req : EntryDefect(last'.req[k], last'.id) # "") =>
          LET first == CHOOSE k \in DOMAIN last'.req :
                          /\ EntryDefect(last'.req[k], last'.id) # ""
                          /\ \A j \in 1..(k - 1) : EntryDefect(last'.req[j], last'.id) = ""
          IN  /\ last'.err = EntryDefect(last'.req[first], last'.id)
              /\ invoice_line_items' = invoice_line_items
              /\ line_item_seq' = line_item_seq]_vars

\* a batch whose first entry is acceptable and whose second entry does not
\* exist was refused and the invoice has no line item
C15_Witness ==
    /\ last.op = "AddEntriesToInvoice" /\ last.err = "time entry not found"
    /\ Len(last.req) = 2 /\ EntryDefect(last.req[1], last.id) = ""
    /\ invoices[last.id].status = "draft" /\ LineItemsOf(last.id) = {}

\* how often an entry is listed
Occurrences(entryIDs, e) == Cardinality({k \in DOMAIN entryIDs : entryIDs[k] = e})

C16_Attach ==
    Called("AddEntriesToInvoice") /\ Succeeded =>
        LET added == invoice_line_items' \ invoice_line_items
        IN  /\ invoice_line_items \subseteq invoice_line_items'
            /\ Cardinality(added) = Len(last'.req)
            /\ \A r \in added : r.invoice_id = last'.id
            /\ \A k \in DOMAIN last'.req :
                   Cardinality({r \in added : r.entry_id = last'.req[k]})
                       = Occurrences(last'.req, last'.req[k])
            /\ \A k \in DOMAIN last'.req : time_entries'[last'.req[k]].invoice_id = NULL
            /\ invoices' = invoices

C16_LockOnlyByFinalize ==
    \A e \in DOMAIN time_entries :
        time_entries[e].invoice_id = NULL /\ time_entries'[e].invoice_id # NULL =>
            /\ Called("Finalize") /\ Succeeded
            /\ e \in ReferencedEntries(last'.id)
            /\ time_entries'[e].invoice_id = Some(last'.id)

\* C16 as stated: a successful AddEntriesToInvoice creates one line item per
\* listed entry and leaves the listed entries unlocked and the invoice's
\* status and stored totals unchanged; an entry becomes locked only by a
\* successful Finalize of an invoice that holds a line item for it.
C16_TwoPhase == [][C16_Attach /\ C16_LockOnlyByFinalize]_vars

\* an entry is locked although no Finalize has succeeded: every invoice is Draft
C16_Witness ==
    /\ \E e \in DOMAIN time_entries : Locked(e)
    /\ \A i \in DOMAIN invoices : invoices[i].status = "draft"

\* C17: RemoveEntryFromInvoice on a Draft invoice.  With a line item for the
\* entry, a successful call deletes one such line item and nothing else,
\* keeps the tax rate and stores subtotal = the sum of the remaining
\* amounts, tax = subtotal x rate, total = subtotal + tax.  Without one the
\* call fails and line items and invoice are unchanged.
C17_Remove ==
    [][Called("RemoveEntryFromInvoice") /\ InvoiceExists(last'.id)
       /\ invoices[last'.id].status = "draft" =>
          IF \E r \in LineItemsOf(last'.id) : r.entry_id = Val(last'.req)
          THEN Succeeded =>
                 LET inv == invoices'[last'.id]
                     sub == SumAmounts({r \in invoice_line_items' : r.invoice_id = last'.id})
                 IN  /\ \E r \in LineItemsOf(last'.id) :
                            /\ r.entry_id = Val(last'.req)
                            /\ invoice_line_items' = invoice_line_items \ {r}
                     /\ inv.tax_rate = invoices[last'.id].tax_rate
                     /\ inv.subtotal = sub
                     /\ inv.tax_amount * 100 = sub * inv.tax_rate
                     /\ inv.total = sub + inv.tax_amount
          ELSE /\ last'.err = "line item for entry not found on invoice"
               /\ invoice_line_items' = invoice_line_items
               /\ invoices' = invoices]_vars

\* a line item was removed from a taxed invoice, one item of 100 remains
C17_Witness ==
    /\ last.op = "RemoveEntryFromInvoice" /\ last.err = ""
    /\ Cardinality(LineItemsOf(last.id)) = 1
    /\ invoices[last.id].tax_rate = 10
    /\ invoices[last.id].subtotal = Money(100)
    /\ invoices[last.id].total = Money(110)

\* C18 as stated: no two line items, on one invoice or on different
\* invoices, refer to the same time entry.
C18_OneLineItemPerEntry ==
    \A r1 \in invoice_line_items, r2 \in invoice_line_items :
        r1.entry_id = r2.entry_id => r1 = r2

\* two successful calls of AddEntriesToInvoice put the same entry twice on
\* a Draft invoice
C18_Witness ==
    /\ last.op = "AddEntriesToInvoice" /\ last.err = "" /\ Len(last.req) = 1
    /\ Cardinality({r \in LineItemsOf(last.id) : r.entry_id = last.req[1]}) = 2

\* the columns of an invoice that are fixed once it is finalized
FixedColumns(row) ==
    <<row.subtotal, row.tax_rate, row.tax_amount, row.total, row.client_id,
      row.period_start, row.period_end>>

\* C19 as stated: while an invoice is Finalized, Sent, Paid or Overdue, no
\* operation changes its subtotal, tax rate, tax amount, total, client,
\* billing period or line items.
C19_ImmutableAfterFinalize ==
    [][\A i \in DOMAIN invoices :
          invoices[i].status # "draft" =>
              /\ FixedColumns(invoices'[i]) = FixedColumns(invoices[i])
              /\ {r \in invoice_line_items' : r.invoice_id = i} = LineItemsOf(i)]_vars

\* CalculateTotals with a new tax rate succeeded on a Finalized invoice
C19_Witness ==
    /\ last.op = "CalculateTotals" /\ last.err = "" /\ last.ret = 0
    /\ invoices[last.id].status = "finalized"
    /\ invoices[last.id].tax_rate = 10 /\ invoices[last.id].tax_amount > 0

\* ------------------------------------------------------------- Stop: C20
\* C20: Stop in Idle fails with "no active timer" and creates no entry.  A
\* successful Stop in Running or Paused appends exactly one entry, closed,
\* with the timer's client and description and the hourly rate the client
\* has at the moment of the call, deletes the timer row (Idle) and returns
\* that entry; in Running or Paused Stop fails only on a storage error.
C20_Stop ==
    [][Called("Stop") =>
          IF GetState = "idle"
          THEN /\ last'.err = "no active timer"
               /\ time_entries' = time_entries /\ active_timer' = active_timer
          ELSE /\ last'.err \in {"", "storage"}
               /\ Succeeded =>
                     LET timer == CHOOSE r \in active_timer : r.id = 1
                         new == Len(time_entries) + 1
                     IN  /\ Len(time_entries') = new
                         /\ SubSeq(time_entries', 1, new - 1) = time_entries
                         /\ time_entries'[new].client_id = timer.client_id
                         /\ time_entries'[new].description = timer.description
                         /\ time_entries'[new].end_time # NULL
                         /\ time_entries'[new].hourly_rate = clients[timer.client_id].hourly_rate
                         /\ GetState' = "idle" /\ active_timer' = {}
                         /\ last'.ret = new]_vars

\* a paused timer of client 1 was stopped after the client's rate was set to 75
C20_Witness ==
    /\ last.op = "Stop" /\ last.err = "" /\ GetState = "idle"
    /\ time_entries[last.ret].client_id = 1 /\ time_entries[last.ret].hourly_rate = 75
    /\ timer_runs[last.ret].paused > 0

\* ------------------------------------------------- Discard, Pause, Resume
\* C21: Discard in Idle fails with "no active timer" and changes nothing.  In
\* Running or Paused it fails only on a storage error, and when it succeeds
\* the timer row is deleted (Idle).  No Discard, failed or not, changes a
\* time entry or a history row.
C21_Discard ==
    [][Called("Discard") =>
          /\ time_entries' = time_entries /\ entry_history' = entry_history
          /\ IF GetState = "idle"
             THEN last'.err = "no active timer" /\ active_timer' = active_timer
             ELSE /\ last'.err \in {"", "storage"}
                  /\ Succeeded => active_timer' = {} /\ GetState' = "idle"
                  /\ ~Succeeded => active_timer' = active_timer]_vars

\* a timer was discarded while a time entry exists
C21_Witness ==
    /\ last.op = "Discard" /\ last.err = "" /\ GetState = "idle"
    /\ Len(time_entries) = 1

\* C23 (as amended): Pause fails in every state other than Running, with "no
\* active timer" in Idle and "timer is not running" in Paused; Resume fails
\* in every state other than Paused, with "no active timer" in Idle and
\* "timer is not paused" in Running.  The refused call leaves the timer row
\* as it was.
C23_Refusals ==
    [][/\ Called("Pause") /\ GetState # "running" =>
              /\ last'.err = IF GetState = "idle" THEN "no active timer"
                             ELSE "timer is not running"
              /\ active_timer' = active_timer
       /\ Called("Resume") /\ GetState # "paused" =>
              /\ last'.err = IF GetState = "idle" THEN "no active timer"
                             ELSE "timer is not paused"
              /\ active_timer' = active_timer]_vars

\* Resume was refused in Idle, after a timer had run and was stopped
C23_Witness ==
    /\ last.op = "Resume" /\ last.err = "no active timer" /\ GetState = "idle"
    /\ DOMAIN timer_runs # {}

\* C23 as stated: one error for every state the call is refused in
C23_AsStated ==
    [][/\ Called("Pause") /\ GetState # "running" => last'.err = "timer is not running"
       /\ Called("Resume") /\ GetState # "paused" => last'.err = "timer is not paused"]_vars

\* ------------------------------------------------------ crash recovery: C22
\* C22: a restart after an abrupt exit, with RecoverFromCrash, leaves the
\* timer row (client, description, start, pause timestamp, paused seconds)
\* unchanged, whether the read fails or not: GetState returns after it what
\* it returned before it, and the elapsed time at every later instant is the
\* one computed from the stored timestamps.
C22_Recovery ==
    [][Called("RecoverFromCrash") =>
          /\ active_timer' = active_timer
          /\ GetState' = GetState
          /\ TimerGet # NULL =>
                 /\ TimerGet' # NULL
                 /\ \A t \in now .. MaxTime :
                        Elapsed(Val(TimerGet'), t) = Elapsed(Val(TimerGet), t)]_vars

\* the process was restarted while a timer that had been paused before was
\* paused again
C22_Witness ==
    /\ last.op = "RecoverFromCrash" /\ last.err = "" /\ GetState = "paused"
    /\ Val(TimerGet).TotalPausedSeconds > 0

\* ------------------------------------------- invoice statuses: C24 C25 C26
\* C24: MarkSent on a Draft invoice fails with "cannot mark draft invoice as
\* sent" and leaves the invoice as it was; on an invoice of every other
\* status it fails only on a storage error, and when it succeeds the status
\* is Sent.  A failed call changes no invoice.
C24_MarkSent ==
    [][Called("MarkSent") /\ InvoiceExists(last'.id) =>
          IF invoices[last'.id].status = "draft"
          THEN last'.err = "cannot mark draft invoice as sent" /\ invoices' = invoices
          ELSE /\ last'.err \in {"", "storage"}
               /\ Succeeded => invoices'[last'.id].status = "sent"
               /\ ~Succeeded => invoices' = invoices]_vars

\* an invoice that had been marked paid was marked sent
C24_Witness ==
    /\ last.op = "MarkSent" /\ last.err = ""
    /\ invoices[last.id].status = "sent" /\ invoices[last.id].paid_date # NULL

\* C25: MarkPaid on an existing invoice, whatever its status, fails only on a
\* storage error; when it succeeds the status is Paid and the paid date is
\* the date given; a failed call changes no invoice.  No MarkPaid changes a
\* line item or a time entry (so no entry's lock).
C25_MarkPaid ==
    [][Called("MarkPaid") =>
          /\ invoice_line_items' = invoice_line_items
          /\ time_entries' = time_entries
          /\ InvoiceExists(last'.id) =>
                /\ last'.err \in {"", "storage"}
                /\ Succeeded =>
                      /\ invoices'[last'.id].status = "paid"
                      /\ invoices'[last'.id].paid_date = Some(FormatTime(Val(last'.req)))
                /\ ~Succeeded => invoices' = invoices]_vars

\* a Draft with a line item was marked paid: its entry is still unlocked
C25_Witness ==
    /\ last.op = "MarkPaid" /\ last.err = "" /\ invoices[last.id].status = "paid"
    /\ invoices[last.id].paid_date = Some(FormatTime(OneHour))
    /\ \E r \in invoice_line_items :
           r.invoice_id = last.id /\ time_entries[r.entry_id].invoice_id = NULL

\* C26: the invoices CheckOverdue is to flip are the Sent ones whose due date
\* is set and earlier than now.  A CheckOverdue that succeeds sets exactly
\* those to Overdue; every CheckOverdue leaves every other invoice as it was
\* and changes nothing but status and update time; after a success no invoice
\* is left to flip, so a second call changes nothing.
C26_Due(table) ==
    {k \in DOMAIN table :
        /\ table[k].status = "sent"
        /\ table[k].due_date # NULL
        /\ parseTime(Val(table[k].due_date)) < now}

C26_CheckOverdue ==
    [][Called("CheckOverdue") =>
          /\ DOMAIN invoices' = DOMAIN invoices
          /\ \A k \in DOMAIN invoices :
                IF invoices'[k] # invoices[k]
                THEN /\ k \in C26_Due(invoices)
                     /\ invoices'[k] = [invoices[k] EXCEPT !.status = "overdue",
                                                           !.updated_at = FormatTime(now)]
                ELSE Succeeded => k \notin C26_Due(invoices)
          /\ Succeeded => C26_Due(invoices') = {}]_vars

\* CheckOverdue flipped a Sent invoice whose due date had passed
C26_Witness ==
    /\ last.op = "CheckOverdue" /\ last.err = ""
    /\ \E k \in DOMAIN invoices :
           /\ invoices[k].status = "overdue"
           /\ parseTime(Val(invoices[k].due_date)) < now

\* ------------------------------------------------ soft deletion: C27 C28
\* C27: SoftDelete of an existing, unlocked entry fails only on a storage
\* error.  When it succeeds the entry's deleted flag is set and exactly one
\* history row is appended: that entry's, field is_deleted, old value 0, new
\* value 1, with the reason the caller gave.  When a SoftDelete fails (no
\* such entry, a locked entry, a storage error) the time entries and the
\* history are as before.  The entry's row is never removed: no step
\* shortens the table of time entries.
C27_SoftDelete ==
    [][/\ Called("SoftDelete") /\ last'.id \in DOMAIN time_entries /\ ~Locked(last'.id) =>
              /\ last'.err \in {"", "storage"}
              /\ Succeeded =>
                    /\ time_entries'[last'.id].is_deleted
                    /\ \A k \in DOMAIN time_entries : k # last'.id => time_entries'[k] = time_entries[k]
                    /\ Len(entry_history') = Len(entry_history) + 1
                    /\ SubSeq(entry_history', 1, Len(entry_history)) = entry_history
                    /\ LET row == entry_history'[Len(entry_history')]
                       IN  /\ row.entry_id = last'.id /\ row.field_name = "is_deleted"
                           /\ row.old_value = "0" /\ row.new_value = "1"
                           /\ row.change_reason = Val(last'.req)
       /\ Called("SoftDelete") /\ ~Succeeded =>
              time_entries' = time_entries /\ entry_history' = entry_history
       /\ Len(time_entries') >= Len(time_entries)]_vars

\* an entry that had been edited was deleted: two history rows, the second
\* the deletion's
C27_Witness ==
    /\ last.op = "SoftDelete" /\ last.err = "" /\ time_entries[last.id].is_deleted
    /\ Len(entry_history) = 2
    /\ entry_history[1].field_name = "description"
    /\ entry_history[2].field_name = "is_deleted"

\* C28: the history is append-only: every step leaves every history row that
\* exists where and as it was; rows are only added after them.
C28_AppendOnly ==
    [][/\ Len(entry_history') >= Len(entry_history)
       /\ SubSeq(entry_history', 1, Len(entry_history)) = entry_history]_vars

\* an edit added two rows after the row of an earlier edit
C28_Witness ==
    /\ Len(entry_history) = 3 /\ last.op = "Update" /\ last.err = ""
    /\ entry_history[1].changed_at = entry_history[3].changed_at
    /\ entry_history[2].field_name # entry_history[3].field_name

\* ------------------------------------------------------ captured rates: C29
\* C29: an entry takes its hourly rate from its client when it is created and
\* keeps it: an edit of a client's rate, an Archive and an Unarchive,
\* successful or not, leave every time entry and every line item (rate and
\* amount included) as they were; and a line item written later takes the
\* rate stored on its entry, whatever the client's rate has become.
C29_Captured ==
    /\ Called("CreateEntry") /\ Succeeded =>
          time_entries'[last'.ret].hourly_rate = clients[last'.id].hourly_rate
    /\ Called("AddEntriesToInvoice") =>
          \A r \in invoice_line_items' \ invoice_line_items :
              /\ r.rate = time_entries[r.entry_id].hourly_rate
              /\ r.amount = IF time_entries[r.entry_id].is_billable
                             THEN r.hours * r.rate * 100 ELSE 0

C30_NoQuitWhileTimer ==
    [][Called("QuitKey") /\ GetState \in {"running", "paused"} => last'.ret = 0]_vars

\* the program quit while a paused timer exists
C30_Witness ==
    /\ last.op = "QuitKey" /\ last.ret = 1
    /\ GetState = "paused"

C32_TotalsDerivable ==
    \A i \in DOMAIN invoices :
        invoices[i].status # "draft" =>
            /\ invoices[i].subtotal = SumAmounts(LineItemsOf(i))
            /\ invoices[i].tax_amount = TaxOf(invoices[i].subtotal, invoices[i].tax_rate)
            /\ invoices[i].total = invoices[i].subtotal + invoices[i].tax_amount

\* a Finalized invoice with a line item of amount 100 stores the subtotal 0
C32_Witness ==
    /\ last.op = "Finalize" /\ last.err = ""
    /\ invoices[last.id].status = "finalized" /\ invoices[last.id].subtotal = 0
    /\ \E r \in LineItemsOf(last.id) : r.amount = Money(100)

\* C33 as stated: every invoice that is not a Draft has at least one line
\* item and every entry its line items refer to is locked to it; and every
\* locked entry refers to an existing invoice that is not a Draft and has a
\* line item for that entry.
C33_LockedIffInvoiced ==
    /\ \A i \in DOMAIN invoices :
           invoices[i].status # "draft" => LineItemsOf(i) # {} /\ LockedTo(i)
    /\ \A e \in DOMAIN time_entries :
           Locked(e) =>
               LET i == Val(time_entries[e].invoice_id)
               IN  /\ InvoiceExists(i) /\ invoices[i].status # "draft"
                   /\ e \in ReferencedEntries(i)

\* a Draft with a line item was marked paid: the invoice is Paid and the
\* entry of its line item is not locked
C33_Witness ==
    /\ last.op = "MarkPaid" /\ last.err = "" /\ invoices[last.id].status = "paid"
    /\ \E e \in ReferencedEntries(last.id) : ~Locked(e)

\* ------------------------------------------- the status over time: C34 C35
\* C34: the status of an invoice never goes back: no step turns an invoice
\* that has left Draft into a Draft again, and no step changes the status of
\* an invoice that is Paid.
C34_NoRegress ==
    [][\A k \in DOMAIN invoices :
          k \in DOMAIN invoices' =>
              /\ invoices[k].status # "draft" => invoices'[k].status # "draft"
              /\ invoices[k].status = "paid" => invoices'[k].status = "paid"]_vars

\* a finalized invoice that had been paid is Sent again
C34_Witness ==
    /\ last.op = "MarkSent" /\ last.err = ""
    /\ invoices[last.id].status = "sent" /\ invoices[last.id].paid_date # NULL
    /\ LineItemsOf(last.id) # {} /\ LockedTo(last.id)

\* C35: Overdue is reached through the life cycle: once the calls of the
\* life cycle (CreateDraft, AddEntriesToInvoice, CalculateTotals, Finalize,
\* MarkSent) have made an invoice Sent, the clock running on and CheckOverdue
\* being called lead to an invoice that is Overdue.
C35_OverdueReached ==
    (\E k \in DOMAIN invoices : invoices[k].status = "sent")
        ~> (\E k \in DOMAIN invoices : invoices[k].status = "overdue")

\* what holds instead in every state the life cycle reaches: no invoice has
\* a due date, and none is Overdue
C35_NoDueDate ==
    \A k \in DOMAIN invoices :
        invoices[k].due_date = NULL /\ invoices[k].status # "overdue"

\* CheckOverdue succeeded at the end of the clock's run over a Sent invoice
\* made by the life cycle: it has no due date and is still Sent
C35_Witness ==
    /\ last.op = "CheckOverdue" /\ last.err = "" /\ now = MaxTime
    /\ \E k \in DOMAIN invoices :
           /\ invoices[k].status = "sent" /\ invoices[k].due_date = NULL
           /\ LineItemsOf(k) # {} /\ LockedTo(k)
           /\ parseTime(invoices[k].created_at) < now

\* ------------------------------------------- line items and entries: C36
\* C36: when a Finalize has succeeded, every line item of its invoice agrees
\* with the entry it locks: its date, description, hours, rate and amount
\* are the entry's start time, description, duration in hours, hourly rate
\* and Amount(), whatever Updates were made since AddEntriesToInvoice.
C36_AgreesWith(r, e) ==
    /\ r.date = FormatTime(e.StartTime)
    /\ r.description = e.Description
    /\ r.hours = Duration(e, now) \div TicksPerSecond
    /\ r.rate = e.HourlyRate
    /\ r.amount = Amount(e, now)

C36_LineItemsAgree ==
    (last.op = "Finalize" /\ last.err = "") =>
        \A r \in LineItemsOf(last.id) : C36_AgreesWith(r, EntryGetByID(r.entry_id))

\* Finalize locked an entry whose rate was edited after its line item was
\* written: the line item still bills the old rate
C36_Witness ==
    /\ last.op = "Finalize" /\ last.err = ""
    /\ \E r \in LineItemsOf(last.id) :
           /\ Locked(r.entry_id)
           /\ r.rate # EntryGetByID(r.entry_id).HourlyRate
           /\ \E h \in 1..Len(entry_history) :
                  /\ entry_history[h].entry_id = r.entry_id
                  /\ entry_history[h].field_name = "hourly_rate"

\* ----------------------------------------------------- a failed Stop: C37
\* C37: a Stop that returns an error, at whatever step, leaves the store as
\* it was: no time entry is added and the timer row is unchanged.
C37_FailedStop ==
    [][Called("Stop") /\ ~Succeeded =>
          time_entries' = time_entries /\ active_timer' = active_timer]_vars

\* Stop failed when it deleted the timer: the entry of the run is stored and
\* the timer is still there to be stopped again
C37_Witness ==
    /\ last.op = "Stop" /\ last.err = "storage"
    /\ TimerGet # NULL
    /\ Len(time_entries) = 1 /\ 1 \in DOMAIN timer_runs
    /\ time_entries[1].client_id = Val(TimerGet).ClientID

\* ------------------------------------------- history rows are real: C38 C39
\* the text the audit writes for the value a row stores in a field
C38_StoredText(row, field) ==
    CASE field = "client_id" -> ToString(row.client_id)
      [] field = "description" -> row.description
      [] field = "start_time" -> ToString(row.start_time)
      [] field = "end_time" -> IF row.end_time = NULL THEN "" ELSE ToString(Val(row.end_time))
      [] field = "hourly_rate" -> FormatRate(row.hourly_rate)
      [] field = "is_billable" -> FormatBool(row.is_billable)
      [] field = "is_deleted" -> IF row.is_deleted THEN "1" ELSE "0"

\* C38: every history row records a real change: the old value of a row
\* that a step adds is the value the entry stored just before the step, and
\* its new value differs from the old one.  So a SoftDelete of an entry that
\* is already deleted adds no row that says 0 -> 1.
C38_RealChange ==
    [][\A k \in (Len(entry_history) + 1)..Len(entry_history') :
          LET row == entry_history'[k]
          IN  /\ row.new_value # row.old_value
              /\ row.entry_id \in DOMAIN time_entries
              /\ row.old_value = C38_StoredText(time_entries[row.entry_id], row.field_name)]_vars

\* an entry was deleted twice: two rows say that its flag went from 0 to 1
C38_Witness ==
    /\ last.op = "SoftDelete" /\ last.err = "" /\ Len(entry_history) = 2
    /\ \A k \in 1..2 :
           /\ entry_history[k].entry_id = last.id
           /\ entry_history[k].field_name = "is_deleted"
           /\ entry_history[k].old_value = "0" /\ entry_history[k].new_value = "1"

\* C39: an Update of an entry that is soft-deleted fails, whatever it asks
\* for, and leaves the time entries and the history as they were.
C39_UpdateOfDeleted ==
    [][/\ Called("Update")
       /\ last'.id \in DOMAIN time_entries
       /\ time_entries[last'.id].is_deleted
       => /\ ~Succeeded
          /\ time_entries' = time_entries
          /\ entry_history' = entry_history]_vars

\* a valid edit of a deleted entry was refused by the UPDATE that found no
\* row; the history holds the deletion's row only
C39_Witness ==
    /\ last.op = "Update" /\ last.err = "time entry not found or already deleted"
    /\ last.req[2]
    /\ time_entries[last.id].is_deleted
    /\ Len(entry_history) = 1 /\ entry_history[1].field_name = "is_deleted"

\* ------------------------------------------------- the elapsed time: C40
\* the elapsed time the stored timer row gives at the present time
C40_Elapsed == Elapsed(Val(TimerGet), now)

\* C40: while a timer exists, its elapsed active time is the wall time since
\* the stored start, less the stored cumulative paused seconds, less (when
\* paused) the time since the stored pause began; it is never negative.
\* When the clock advances by a tick it stays the same while the timer is
\* Paused and grows by that tick while the timer is Running.  A Pause or a
\* Resume that succeeds at a whole-second time leaves it as it was.
C40_ElapsedTime ==
    [][/\ TimerGet' # NULL =>
              LET r == CHOOSE x \in active_timer' : x.id = 1
              IN  /\ C40_Elapsed' >= 0
                  /\ C40_Elapsed' =
                         (now' - r.start_time * TicksPerSecond)
                         - r.total_paused_seconds * TicksPerSecond
                         - (IF r.paused_at # NULL
                            THEN now' - Val(r.paused_at) * TicksPerSecond ELSE 0)
       /\ (now' # now /\ TimerGet # NULL) =>
              C40_Elapsed' - C40_Elapsed
                  = IF GetState = "paused" THEN 0 ELSE now' - now
       /\ ((Called("Pause") \/ Called("Resume")) /\ Succeeded /\ Whole(now)) =>
              C40_Elapsed' = C40_Elapsed]_vars

\* a timer that had been paused and resumed was paused again on a whole
\* second, with time on the clock, in a run whose calls were all on whole
\* seconds
C40_Witness ==
    /\ last.op = "Pause" /\ last.err = "" /\ Whole(now) /\ obs.whole
    /\ GetState = "paused"
    /\ Val(TimerGet).TotalPausedSeconds > 0
    /\ C40_Elapsed > 0
====
